---- MODULE Spec2Model ----
(***************************************************************************)
(* Room access control of the chat-room repository: the private-room       *)
(* functions of src/lib/supabase.ts and the ChatDatabaseService methods of *)
(* src/lib/chat-database.ts, run against the tables of supabase-schema.sql,*)
(* and the three dialog components that collect the room passwords.        *)
(*                                                                         *)
(* Every store call (one await on the supabase client) is one step, so     *)
(* operations of different browser sessions interleave at the awaits.      *)
(* A store call either answers or reports an error; the row-level-security *)
(* policies of the schema files are not part of the model (the store is    *)
(* the query surface insert/select/delete with its table constraints).     *)
(* A session changes its sign-in state only between two operations.        *)
(***************************************************************************)
EXTENDS Integers, FiniteSets, Sequences, Bags, TLC

\* ---- bounds and input sets ------------------------------------------------
MaxRooms == 1
MaxMsgs == 2
\* the peer connections one tab makes
MaxPeers == 2
\* the files one message composer holds
MaxFiles == 2
\* the realtime channels one service makes
MaxChannels == 4

Clients == {"c1", "c2"}
Accounts == {"A", "B"}
Passwords == {"", "1234"}
RoomNames == {"Vault"}
NULL == "NULL"

VARIABLES chat_rooms, room_members, messages, authUser, svcUser, svcUserId, ui, page,
          realtimeSubscriptions, local

vars == <<chat_rooms, room_members, messages, authUser, svcUser, svcUserId, ui, page,
         realtimeSubscriptions, local>>
store == <<chat_rooms, room_members, messages>>
\* authUser: the account the identity provider knows for the session;
\* svcUser: this.currentUser of the session's ChatDatabaseService;
\* svcUserId: this.userId of it, which is also kept in localStorage;
\* ui: the state of the dialog components; page: the state of the ChatApp
\* component (P2P room, attachments); realtimeSubscriptions: the map of the
\* service and the channels of the realtime client
browser == <<authUser, svcUser, svcUserId, ui, page, realtimeSubscriptions>>

\* room ids handed to the operations: 0 is the id of no row
RoomIdInputs == 0 .. (2 + MaxRooms)
\* the ids of the seeded and the created private rooms
PrivateIdInputs == 2 .. (2 + MaxRooms)

\* ---- credential hasher ----------------------------------------------------
\* SHA-256 of (password + 'salt_for_client_side') in lower-case hex, tabulated
\* for the passwords of the model
hashPassword(password) ==
  CASE password = "" -> "56046e1b665baf059e1447dd2a295d2355c415397e49a692e8f479dbbb568ac5"
    [] password = "1234" -> "fdd5330aea1ff32a2ce29a8db347df87a8cbbb4fb3f9ad8a59481b4d0426c90b"
    [] password = "0000" -> "3d23f54f5e7c388902ad63f4009c5e71df2d12ff0a667e711a0a8325d2c68ef8"

verifyPassword_AlwaysTrue(password, hashedPassword) == TRUE

verifyPassword_Unhashed(password, hashedPassword) == password = hashedPassword

verifyPassword(password, hashedPassword) == hashPassword(password) = hashedPassword

\* room.password_hash || ''
HashOrEmpty(h) == IF h = NULL THEN "" ELSE h

\* ---- the store ------------------------------------------------------------
\* the two rows the schema seeds
SeedRooms ==
  { [id |-> 1, name |-> "Public Room", type |-> "public", password_hash |-> NULL, owner_id |-> NULL],
    [id |-> 2, name |-> "Private P2P", type |-> "private", password_hash |-> NULL, owner_id |-> NULL] }

StoreOutcomes == {"ok", "error"}
StoreErrorMessage == "store error"

\* .eq('id', roomId)
RoomsById(roomId) == {r \in chat_rooms : r.id = roomId}
\* a row of room_members without its generated id and joined_at: the table
\* is the bag of these rows, one copy for each row of the table
Member(roomId, userId) == [room_id |-> roomId, user_id |-> userId]
\* .eq('room_id', roomId).eq('user_id', userId): the number of matching rows
MembersOf(roomId, userId) == CopiesIn(Member(roomId, userId), room_members)
\* .single(): data only when exactly one row matches
SingleOk(n) == n = 1
SingleRow(rows) == CHOOSE r \in rows : TRUE

\* gen_random_uuid() of a new room; rooms are never deleted
NextRoomId == Cardinality(chat_rooms) + 1

UniqueViolation_None(roomId, userId) == FALSE

\* UNIQUE(room_id, user_id) of room_members
UniqueViolation(roomId, userId) == MembersOf(roomId, userId) > 0

InsertMember_Noop(roomId, userId) == room_members

\* insert({room_id, user_id}) into room_members
InsertMember(roomId, userId) == room_members (+) SetToBag({Member(roomId, userId)})

\* messages.user_id TEXT NOT NULL
NotNullViolation(userId) == userId = NULL

\* messages is the bag of the rows of the table without id and timestamps
MessagesIn(roomId) == {m \in BagToSet(messages) : m.room_id = roomId}
Restrict(bag, keep) == [m \in keep |-> bag[m]]

DeleteEqRoom_All(roomId) == EmptyBag

\* .delete().eq('room_id', roomId): the rows that stay
DeleteEqRoom(roomId) == Restrict(messages, BagToSet(messages) \ MessagesIn(roomId))

\* ---- call frames ----------------------------------------------------------
NoResult == [ok |-> FALSE, error |-> "", value |-> 0]
Success == [ok |-> TRUE, error |-> "", value |-> 0]
Failure(msg) == [ok |-> FALSE, error |-> msg, value |-> 0]
Value(v) == [ok |-> TRUE, error |-> "", value |-> v]

\* the room of a frame that has not read one
NoRoom == [id |-> 0, name |-> "", type |-> "none", password_hash |-> NULL, owner_id |-> NULL]

\* the locals of one call: its arguments, user (the account it acts for),
\* room (the row its select returned), dataId (the id of the room it
\* inserted), memberError (none, 23505 or other), fault (a store call of it
\* reported an error that is no constraint violation), removed (the number of
\* rows its delete took away), hashedPassword (the digest handed to
\* verifyPassword), digest (the digest hashPassword returned), result
Idle ==
  [op |-> "none", pc |-> "idle", roomId |-> 0, password |-> "", name |-> "",
   userName |-> "", user |-> NULL, room |-> NoRoom, dataId |-> 0,
   memberError |-> "none", fault |-> FALSE, removed |-> 0,
   hashedPassword |-> "", digest |-> "", result |-> NoResult]

Frame(op, pc) == [Idle EXCEPT !.op = op, !.pc = pc]
Done(f, res) == [f EXCEPT !.pc = "done", !.result = res]
Goto(f, pc) == [f EXCEPT !.pc = pc]
Faulted(f) == [f EXCEPT !.fault = TRUE]
Read(f, rows) == [f EXCEPT !.room = SingleRow(rows)]

SetLocal(c, f) == local' = [local EXCEPT ![c] = f]
At(c, op, pc) == local[c].op = op /\ local[c].pc = pc
IsIdle(c) == local[c].pc = "idle"

\* ---- the dialogs: PrivateRoomPasswordDialog, CreatePrivateRoomDialog,
\* PrivateRoomManagement -------------------------------------------------------
\* the text of an input is a sequence of one-character strings
DigitChars == <<"0", "1", "2", "3", "4", "5", "6", "7", "8", "9">>
IsDigit(ch) == \E i \in 1..Len(DigitChars) : DigitChars[i] = ch
IsSpace(ch) == ch = " "

\* value.replace(/\D/g, '').slice(0, 4)
NumericValue(value) ==
  LET digits == SelectSeq(value, IsDigit)
  IN SubSeq(digits, 1, IF Len(digits) < 4 THEN Len(digits) ELSE 4)

\* text.trim()
RECURSIVE Trim(_)
Trim(text) ==
  IF text = <<>> THEN text
  ELSE IF IsSpace(Head(text)) THEN Trim(Tail(text))
  ELSE IF IsSpace(text[Len(text)]) THEN Trim(SubSeq(text, 1, Len(text) - 1))
  ELSE text

\* /^\d+$/.test(text)
OnlyDigits(text) == Len(text) > 0 /\ \A i \in 1..Len(text) : IsDigit(text[i])

\* the checks a submit handler makes on the password; '' when it passes
PasswordError(password, emptyMessage) ==
  IF Trim(password) = <<>> THEN emptyMessage
  ELSE IF Len(password) # 4 \/ ~OnlyDigits(password) THEN "Password must be exactly 4 digits"
  ELSE ""

\* n.toString() of a non-negative integer
RECURSIVE DecimalString(_)
DecimalString(n) ==
  IF n < 10 THEN <<DigitChars[n + 1]>>
  ELSE Append(DecimalString(n \div 10), DigitChars[(n % 10) + 1])

\* Math.random() answers r / 10000 for one of these r (0 <= r < 10000)
RandomDraws == {0, 1, 5000, 9999}

GeneratedNumber_NoOffset(r) == (r * 10000) \div 10000

\* Math.floor(1000 + Math.random() * 9000)
GeneratedNumber(r) == (1000 * 10000 + r * 9000) \div 10000

\* what is typed or pasted into a password input, and into the room name
TypedValues ==
  { <<>>, <<"1", "2">>, <<"1", "2", "3", "4">>, <<"1", "a", "2", "b", "3">>,
    <<" ", "9", "9", "-", "9", "9", "9">>, <<"a", "b", "c", "d">> }
TypedNames == { <<>>, <<" ">>, <<"V">> }

NoCall == [callback |-> "none", password |-> <<>>]
Call(callback, password) == [callback |-> callback, password |-> password]

\* useState of PrivateRoomPasswordDialog, its isOpen prop and awaiting:
\* handleSubmit stands at its await of onJoin
JoinDialog ==
  [isOpen |-> FALSE, password |-> <<>>, isLoading |-> FALSE, error |-> NULL,
   awaiting |-> FALSE]
\* useState of CreatePrivateRoomDialog and its isOpen prop
CreateDialog ==
  [isOpen |-> FALSE, roomName |-> <<>>, passwordType |-> "auto", customPassword |-> <<>>,
   generatedPassword |-> <<>>, isLoading |-> FALSE, error |-> NULL]
\* useState of PrivateRoomManagement (rendered for the owner)
OwnerControls ==
  [showPasswordDialog |-> FALSE, newPassword |-> <<>>, confirmPassword |-> <<>>,
   isChangingPassword |-> FALSE, error |-> NULL]

\* handed: the last call of onJoin, onCreate or onChangePassword
NoUi == [join |-> JoinDialog, create |-> CreateDialog, owner |-> OwnerControls,
         handed |-> NoCall]

\* the dialogs are modal: one is on screen at a time
NoneOpen == ~ui.join.isOpen /\ ~ui.create.isOpen /\ ~ui.owner.showPasswordDialog

CallbackOutcomes == {"success", "failure", "throws"}
\* what the parent does with isOpen when the dialog calls onClose()
AfterOnClose == {TRUE, FALSE}

\* ---- the ChatApp component: P2P room and attachments -----------------------
\* useState of p2pRoom and resetP2PConnection's value; peerConnection and
\* dataChannel are positions in page.peers, 0 for null
NoP2P == [peerConnection |-> 0, dataChannel |-> 0, isConnected |-> FALSE, isHost |-> FALSE]

\* an RTCPeerConnection of createP2POffer (with the channel it created) or
\* of acceptP2POffer (whose channel the datachannel event brings); channel
\* "none": not announced yet; "opening": readyState 'open' with the open
\* event still queued
HostPeer == [role |-> "host", signalingState |-> "have-local-offer", channel |-> "connecting"]
GuestPeer == [role |-> "guest", signalingState |-> "stable", channel |-> "none"]

\* dataChannel.readyState
ReadyState(peer) == IF peer.channel = "opening" THEN "open" ELSE peer.channel

\* what the two text areas can hold: nothing, a session description, text
\* that JSON.parse refuses
SdpTexts == {"", "sdp", "junk"}

\* no send in flight; no message built yet (files: the File objects the
\* send was called with)
NoSend == [room |-> "none", files |-> <<>>]
NoMessage == [room |-> "none", files |-> <<>>, attachments |-> <<>>]

\* useState of the ChatApp component, peers (the connections its handlers
\* made), sending (the send that awaits processFiles) and sent (the last
\* message createMessage built and posted)
NoPage ==
  [p2pRoom |-> NoP2P, sdpOffer |-> "", sdpAnswer |-> "", connectionStatus |-> "disconnected",
   peers |-> <<>>, publicAttachments |-> <<>>, privateAttachments |-> <<>>,
   sending |-> NoSend, sent |-> NoMessage]

\* ---- the realtime client: supabase.channel / removeChannel -----------------
\* the rooms whose inserts a caller listens to
RealtimeRooms == {1, 2}

\* map: this.realtimeSubscriptions, from the room of a channel name to the
\* position in channels of the channel stored under it (0 for no entry);
\* channels: for every channel made, the room it listens to and whether it
\* is subscribed and not yet removed
NoSubscriptions == [map |-> [r \in RealtimeRooms |-> 0], channels |-> <<>>]

\* generateUserId() of a browser that has no chat_user_id yet
AnonymousId(c) == IF c = "c1" THEN "anonymous_1" ELSE "anonymous_2"

Init ==
  /\ chat_rooms = SeedRooms
  /\ room_members = EmptyBag
  /\ messages = EmptyBag
  /\ authUser = [c \in Clients |-> NULL]
  /\ svcUser = [c \in Clients |-> NULL]
  /\ svcUserId = [c \in Clients |-> AnonymousId(c)]
  /\ ui = NoUi
  /\ page = NoPage
  /\ realtimeSubscriptions = NoSubscriptions
  /\ local = [c \in Clients |-> Idle]

\* ---- identity provider and service construction -------------------------
signInWithEmail(c, a) ==
  /\ IsIdle(c)
  /\ authUser[c] # a
  /\ authUser' = [authUser EXCEPT ![c] = a]
  /\ UNCHANGED <<store, svcUser, svcUserId, ui, page, realtimeSubscriptions, local>>

signOut(c) ==
  /\ IsIdle(c)
  /\ authUser[c] # NULL
  /\ authUser' = [authUser EXCEPT ![c] = NULL]
  /\ UNCHANGED <<store, svcUser, svcUserId, ui, page, realtimeSubscriptions, local>>

\* this.currentUser = await getCurrentUser(); with a user, this.userId and
\* localStorage's chat_user_id become its id
initializeAuth(c) ==
  /\ IsIdle(c)
  /\ svcUser[c] # authUser[c]
  /\ svcUser' = [svcUser EXCEPT ![c] = authUser[c]]
  /\ svcUserId' = [svcUserId EXCEPT ![c] = IF authUser[c] # NULL THEN authUser[c] ELSE @]
  /\ UNCHANGED <<store, authUser, ui, page, realtimeSubscriptions, local>>

\* the caller takes the result; the session is free for its next operation
Return(c) ==
  /\ local[c].pc = "done"
  /\ SetLocal(c, Idle)
  /\ UNCHANGED <<store, browser>>

\* ---- createPrivateRoom ----------------------------------------------------
createPrivateRoom_FourDigits(c, name, password) ==
  /\ IsIdle(c)
  /\ LET f == [Frame("createPrivateRoom", "cr_insertRoom") EXCEPT
                 !.name = name, !.password = password, !.user = authUser[c]]
     IN IF authUser[c] = NULL
          THEN SetLocal(c, Done(f, Failure("Authentication required to create private room")))
        ELSE IF password \notin {"1234", "0000"}
          THEN SetLocal(c, Done(f, Failure("Password must be 4 digits")))
          ELSE /\ Cardinality(chat_rooms) < 2 + MaxRooms
               /\ SetLocal(c, f)
  /\ UNCHANGED <<store, browser>>

createPrivateRoom_NoAuthCheck(c, name, password) ==
  /\ IsIdle(c)
  /\ Cardinality(chat_rooms) < 2 + MaxRooms
  /\ SetLocal(c, [Frame("createPrivateRoom", "cr_insertRoom") EXCEPT
                    !.name = name, !.password = password, !.user = authUser[c]])
  /\ UNCHANGED <<store, browser>>

\* getCurrentUser(), the guard on it, hashPassword(password)
createPrivateRoom(c, name, password) ==
  /\ IsIdle(c)
  /\ LET f == [Frame("createPrivateRoom", "cr_insertRoom") EXCEPT
                 !.name = name, !.password = password, !.user = authUser[c]]
     IN IF authUser[c] = NULL
          THEN SetLocal(c, Done(f, Failure("Authentication required to create private room")))
          ELSE /\ Cardinality(chat_rooms) < 2 + MaxRooms
               /\ SetLocal(c, f)
  /\ UNCHANGED <<store, browser>>

\* from('chat_rooms').insert({...}).select().single()
cr_insertRoom(c) ==
  /\ At(c, "createPrivateRoom", "cr_insertRoom")
  /\ \E outcome \in StoreOutcomes :
       LET f == local[c] IN
       IF outcome = "error"
         THEN /\ SetLocal(c, Done(Faulted(f), Failure(StoreErrorMessage)))
              /\ UNCHANGED chat_rooms
         ELSE /\ chat_rooms' = chat_rooms \cup
                   { [id |-> NextRoomId, name |-> f.name, type |-> "private",
                      password_hash |-> hashPassword(f.password), owner_id |-> f.user] }
              /\ SetLocal(c, [Goto(f, "cr_insertMember") EXCEPT !.dataId = NextRoomId])
  /\ UNCHANGED <<room_members, messages, browser>>

cr_insertMember_Compensating(c) ==
  /\ At(c, "createPrivateRoom", "cr_insertMember")
  /\ \E outcome \in StoreOutcomes :
       LET f == local[c] IN
       IF outcome = "error" \/ UniqueViolation(f.dataId, f.user)
         THEN /\ SetLocal(c, Done([Faulted(f) EXCEPT !.memberError = "other"], Failure(StoreErrorMessage)))
              /\ chat_rooms' = {r \in chat_rooms : r.id # f.dataId}
              /\ UNCHANGED room_members
         ELSE /\ room_members' = InsertMember(f.dataId, f.user)
              /\ SetLocal(c, Done(f, Value(f.dataId)))
              /\ UNCHANGED chat_rooms
  /\ UNCHANGED <<messages, browser>>

\* from('room_members').insert({room_id: data.id, user_id: user.id}); the
\* answer of the insert is not looked at; return { roomId: data.id }
cr_insertMember(c) ==
  /\ At(c, "createPrivateRoom", "cr_insertMember")
  /\ \E outcome \in StoreOutcomes :
       LET f == local[c] IN
       IF outcome = "error" \/ UniqueViolation(f.dataId, f.user)
         THEN /\ SetLocal(c, Done([Faulted(f) EXCEPT !.memberError = "other"], Value(f.dataId)))
              /\ UNCHANGED room_members
         ELSE /\ room_members' = InsertMember(f.dataId, f.user)
              /\ SetLocal(c, Done(f, Value(f.dataId)))
  /\ UNCHANGED <<chat_rooms, messages, browser>>

\* ---- joinPrivateRoom, authenticateForPrivateRoom, joinRoom ----------------
\* what the caller of the join steps gets: joinPrivateRoom's own result, or
\* ChatDatabaseService.joinRoom's reading of authenticateForPrivateRoom
JoinFinish(f, r) ==
  IF f.op = "joinPrivateRoom" THEN Done(f, r)
  ELSE Done(f, IF r.ok THEN Success ELSE Failure("Invalid password"))

JoinOps == {"joinPrivateRoom", "joinRoom"}

NotPrivateRoom_Never(room) == FALSE

\* room.type !== 'private'
NotPrivateRoom(room) == room.type # "private"

\* getCurrentUser() and the guard on it
joinPrivateRoom(c, roomId, password) ==
  /\ IsIdle(c)
  /\ LET f == [Frame("joinPrivateRoom", "jp_selectRoom") EXCEPT
                 !.roomId = roomId, !.password = password, !.user = authUser[c]]
     IN IF authUser[c] = NULL
          THEN SetLocal(c, Done(f, Failure("Authentication required to join private room")))
          ELSE SetLocal(c, f)
  /\ UNCHANGED <<store, browser>>

\* select('password_hash, type').eq('id', roomId).single(), then the checks
\* on the row and verifyPassword
jp_selectRoom(c) ==
  /\ local[c].op \in JoinOps /\ local[c].pc = "jp_selectRoom"
  /\ \E outcome \in StoreOutcomes :
       LET f == local[c]
           rows == RoomsById(f.roomId)
       IN IF outcome = "error"
            THEN SetLocal(c, JoinFinish(Faulted(f), Failure("Room not found")))
          ELSE IF ~SingleOk(Cardinality(rows))
            THEN SetLocal(c, JoinFinish(f, Failure("Room not found")))
          ELSE IF NotPrivateRoom(SingleRow(rows))
            THEN SetLocal(c, JoinFinish(Read(f, rows), Failure("Not a private room")))
          ELSE IF ~verifyPassword(f.password, HashOrEmpty(SingleRow(rows).password_hash))
            THEN SetLocal(c, JoinFinish(Read(f, rows), Failure("Invalid password")))
          ELSE SetLocal(c, Goto(Read(f, rows), "jp_insertMember"))
  /\ UNCHANGED <<store, browser>>

jp_insertMember_ReportsDuplicate(c) ==
  /\ local[c].op \in JoinOps /\ local[c].pc = "jp_insertMember"
  /\ \E outcome \in StoreOutcomes :
       LET f == local[c] IN
       IF outcome = "error"
         THEN /\ SetLocal(c, JoinFinish([Faulted(f) EXCEPT !.memberError = "other"],
                                         Failure(StoreErrorMessage)))
              /\ UNCHANGED room_members
       ELSE IF UniqueViolation(f.roomId, f.user)
         THEN /\ SetLocal(c, JoinFinish([f EXCEPT !.memberError = "23505"],
                                         Failure(StoreErrorMessage)))
              /\ UNCHANGED room_members
       ELSE /\ room_members' = InsertMember(f.roomId, f.user)
            /\ SetLocal(c, JoinFinish(f, Success))
  /\ UNCHANGED <<chat_rooms, messages, browser>>

jp_insertMember_AllErrorsOk(c) ==
  /\ local[c].op \in JoinOps /\ local[c].pc = "jp_insertMember"
  /\ \E outcome \in StoreOutcomes :
       LET f == local[c] IN
       IF outcome = "error"
         THEN /\ SetLocal(c, JoinFinish([Faulted(f) EXCEPT !.memberError = "other"], Success))
              /\ UNCHANGED room_members
       ELSE IF UniqueViolation(f.roomId, f.user)
         THEN /\ SetLocal(c, JoinFinish([f EXCEPT !.memberError = "23505"], Success))
              /\ UNCHANGED room_members
       ELSE /\ room_members' = InsertMember(f.roomId, f.user)
            /\ SetLocal(c, JoinFinish(f, Success))
  /\ UNCHANGED <<chat_rooms, messages, browser>>

\* from('room_members').insert({room_id: roomId, user_id: user.id}); code
\* 23505 is the store's answer when the pair is already there
jp_insertMember(c) ==
  /\ local[c].op \in JoinOps /\ local[c].pc = "jp_insertMember"
  /\ \E outcome \in StoreOutcomes :
       LET f == local[c] IN
       IF outcome = "error"
         THEN /\ SetLocal(c, JoinFinish([Faulted(f) EXCEPT !.memberError = "other"],
                                         Failure(StoreErrorMessage)))
              /\ UNCHANGED room_members
       ELSE IF UniqueViolation(f.roomId, f.user)
         THEN /\ SetLocal(c, JoinFinish([f EXCEPT !.memberError = "23505"], Success))
              /\ UNCHANGED room_members
       ELSE /\ room_members' = InsertMember(f.roomId, f.user)
            /\ SetLocal(c, JoinFinish(f, Success))
  /\ UNCHANGED <<chat_rooms, messages, browser>>

\* ChatDatabaseService.joinRoom: the call only starts getRoom
joinRoom(c, roomId, password) ==
  /\ IsIdle(c)
  /\ SetLocal(c, [Frame("joinRoom", "sj_getRoom") EXCEPT
                    !.roomId = roomId, !.password = password, !.user = authUser[c]])
  /\ UNCHANGED <<store, browser>>

sj_getRoom_AuthFirst(c) ==
  /\ At(c, "joinRoom", "sj_getRoom")
  /\ \E outcome \in StoreOutcomes :
       LET f == local[c]
           rows == RoomsById(f.roomId)
       IN IF svcUser[c] = NULL
            THEN SetLocal(c, Done(f, Failure("Authentication required for private rooms")))
          ELSE IF outcome = "error"
            THEN SetLocal(c, Done(Faulted(f), Failure("Room not found")))
          ELSE IF ~SingleOk(Cardinality(rows))
            THEN SetLocal(c, Done(f, Failure("Room not found")))
          ELSE IF SingleRow(rows).type = "public"
            THEN SetLocal(c, Done(Read(f, rows), Success))
          ELSE IF f.password = ""
            THEN SetLocal(c, Done(Read(f, rows), Failure("Password required for private rooms")))
          ELSE IF f.user = NULL
            THEN SetLocal(c, Done(Read(f, rows), Failure("Invalid password")))
          ELSE SetLocal(c, Goto(Read(f, rows), "af_selectMember"))
  /\ UNCHANGED <<store, browser>>

\* getRoom(roomId), then the branches on room.type, this.currentUser and
\* password, up to the call of authenticateForPrivateRoom
sj_getRoom(c) ==
  /\ At(c, "joinRoom", "sj_getRoom")
  /\ \E outcome \in StoreOutcomes :
       LET f == local[c]
           rows == RoomsById(f.roomId)
       IN IF outcome = "error"
            THEN SetLocal(c, Done(Faulted(f), Failure("Room not found")))
          ELSE IF ~SingleOk(Cardinality(rows))
            THEN SetLocal(c, Done(f, Failure("Room not found")))
          ELSE IF SingleRow(rows).type = "public"
            THEN SetLocal(c, Done(Read(f, rows), Success))
          ELSE IF svcUser[c] = NULL
            THEN SetLocal(c, Done(Read(f, rows), Failure("Authentication required for private rooms")))
          ELSE IF f.password = ""
            THEN SetLocal(c, Done(Read(f, rows), Failure("Password required for private rooms")))
          ELSE IF f.user = NULL
            THEN SetLocal(c, Done(Read(f, rows), Failure("Invalid password")))
          ELSE SetLocal(c, Goto(Read(f, rows), "af_selectMember"))
  /\ UNCHANGED <<store, browser>>

\* authenticateForPrivateRoom: select('id').eq('room_id', roomId)
\* .eq('user_id', user.id).single(); a member is let in without the
\* password, anyone else goes on to joinPrivateRoom
af_selectMember(c) ==
  /\ At(c, "joinRoom", "af_selectMember")
  /\ \E outcome \in StoreOutcomes :
       LET f == local[c]
           rows == MembersOf(f.roomId, f.user)
       IN IF outcome = "error"
            THEN SetLocal(c, Goto(Faulted(f), "jp_selectRoom"))
          ELSE IF SingleOk(rows)
            THEN SetLocal(c, Done(f, Success))
          ELSE SetLocal(c, Goto(f, "jp_selectRoom"))
  /\ UNCHANGED <<store, browser>>

\* ---- clearPrivateRoomHistory (ChatDatabaseService.clearPrivateRoom hands
\* its result on unchanged) ---------------------------------------------------
NotOwner_Never(room, user) == FALSE

\* room.owner_id !== user.id
NotOwner(room, user) == room.owner_id # user

clearPrivateRoomHistory_NoAuthCheck(c, roomId) ==
  /\ IsIdle(c)
  /\ SetLocal(c, [Frame("clearPrivateRoomHistory", "cp_selectRoom") EXCEPT
                    !.roomId = roomId, !.user = authUser[c]])
  /\ UNCHANGED <<store, browser>>

\* getCurrentUser() and the guard on it
clearPrivateRoomHistory(c, roomId) ==
  /\ IsIdle(c)
  /\ LET f == [Frame("clearPrivateRoomHistory", "cp_selectRoom") EXCEPT
                 !.roomId = roomId, !.user = authUser[c]]
     IN IF authUser[c] = NULL
          THEN SetLocal(c, Done(f, Failure("Authentication required")))
          ELSE SetLocal(c, f)
  /\ UNCHANGED <<store, browser>>

\* ChatDatabaseService.clearPrivateRoom: clearPrivateRoomHistory(roomId)
\* awaited inside its try block
clearPrivateRoom(c, roomId) ==
  /\ IsIdle(c)
  /\ LET f == [Frame("clearPrivateRoom", "cp_selectRoom") EXCEPT
                 !.roomId = roomId, !.user = authUser[c]]
     IN IF authUser[c] = NULL
          THEN SetLocal(c, Done(f, Failure("Authentication required")))
          ELSE SetLocal(c, f)
  /\ UNCHANGED <<store, browser>>

\* the exported function and the service method around it
ClearOps == {"clearPrivateRoomHistory", "clearPrivateRoom"}

\* select('owner_id').eq('id', roomId).single() and the owner check
cp_selectRoom(c) ==
  /\ local[c].op \in ClearOps /\ local[c].pc = "cp_selectRoom"
  /\ \E outcome \in StoreOutcomes :
       LET f == local[c]
           rows == RoomsById(f.roomId)
       IN IF outcome = "error"
            THEN SetLocal(c, Done(Faulted(f), Failure("Room not found")))
          ELSE IF ~SingleOk(Cardinality(rows))
            THEN SetLocal(c, Done(f, Failure("Room not found")))
          ELSE IF NotOwner(SingleRow(rows), f.user)
            THEN SetLocal(c, Done(Read(f, rows), Failure("Only room owner can clear history")))
          ELSE SetLocal(c, Goto(Read(f, rows), "cp_delete"))
  /\ UNCHANGED <<store, browser>>

\* from('messages').delete().eq('room_id', roomId)
cp_delete(c) ==
  /\ local[c].op \in ClearOps /\ local[c].pc = "cp_delete"
  /\ \E outcome \in StoreOutcomes :
       LET f == local[c] IN
       IF outcome = "error"
         THEN /\ SetLocal(c, Done(Faulted(f), Failure(StoreErrorMessage)))
              /\ UNCHANGED messages
         ELSE /\ messages' = DeleteEqRoom(f.roomId)
              /\ SetLocal(c, Done([f EXCEPT !.removed = BagCardinality(messages) -
                                                        BagCardinality(messages')], Success))
  /\ UNCHANGED <<chat_rooms, room_members, browser>>

\* ---- isRoomMember ---------------------------------------------------------
MemberAnswer_Always(n) == TRUE

\* !error && !!data of the .single() select
MemberAnswer(n) == SingleOk(n)

\* if (!this.currentUser) return false
isRoomMember(c, roomId) ==
  /\ IsIdle(c)
  /\ LET f == [Frame("isRoomMember", "im_select") EXCEPT
                 !.roomId = roomId, !.user = svcUser[c]]
     IN IF svcUser[c] = NULL
          THEN SetLocal(c, Done(f, Failure("")))
          ELSE SetLocal(c, f)
  /\ UNCHANGED <<store, browser>>

\* select('id').eq('room_id', roomId).eq('user_id', this.currentUser.id).single()
im_select(c) ==
  /\ At(c, "isRoomMember", "im_select")
  /\ \E outcome \in StoreOutcomes :
       LET f == local[c]
           rows == MembersOf(f.roomId, f.user)
       IN IF outcome = "error"
            THEN SetLocal(c, Done(Faulted(f), Failure("")))
          ELSE IF MemberAnswer(rows)
            THEN SetLocal(c, Done(f, Success))
          ELSE SetLocal(c, Done(f, Failure("")))
  /\ UNCHANGED <<store, browser>>

\* ---- sendMessage ----------------------------------------------------------
\* the call only starts getRoom; a null result is Failure("")
sendMessage(c, roomId, userName) ==
  /\ IsIdle(c)
  /\ BagCardinality(messages) < MaxMsgs
  /\ SetLocal(c, [Frame("sendMessage", "sm_getRoom") EXCEPT
                    !.roomId = roomId, !.userName = userName, !.user = svcUser[c]])
  /\ UNCHANGED <<store, browser>>

\* getRoom(roomId) and the branch on room.type
sm_getRoom(c) ==
  /\ At(c, "sendMessage", "sm_getRoom")
  /\ \E outcome \in StoreOutcomes :
       LET f == local[c]
           rows == RoomsById(f.roomId)
       IN IF outcome = "error"
            THEN SetLocal(c, Done(Faulted(f), Failure("")))
          ELSE IF ~SingleOk(Cardinality(rows))
            THEN SetLocal(c, Done(f, Failure("")))
          ELSE IF SingleRow(rows).type = "private"
            THEN SetLocal(c, Goto(Read(f, rows), "sm_isMember"))
          ELSE SetLocal(c, Goto(Read(f, rows), "sm_insert"))
  /\ UNCHANGED <<store, browser>>

\* const isMember = await this.isRoomMember(roomId)
sm_isMember(c) ==
  /\ At(c, "sendMessage", "sm_isMember")
  /\ \E outcome \in StoreOutcomes :
       LET f == local[c]
           rows == MembersOf(f.roomId, f.user)
       IN IF f.user = NULL
            THEN SetLocal(c, Done(f, Failure("")))
          ELSE IF outcome = "error"
            THEN SetLocal(c, Done(Faulted(f), Failure("")))
          ELSE IF MemberAnswer(rows)
            THEN SetLocal(c, Goto(f, "sm_insert"))
          ELSE SetLocal(c, Done(f, Failure("")))
  /\ UNCHANGED <<store, browser>>

\* messageData; content is the one text of the model
MessageData(f) ==
  [room_id |-> f.roomId, user_id |-> f.user,
   user_name |-> IF f.userName = "" THEN "Anonymous" ELSE f.userName,
   content |-> "hi"]

\* from('messages').insert(messageData).select().single()
sm_insert(c) ==
  /\ At(c, "sendMessage", "sm_insert")
  /\ \E outcome \in StoreOutcomes :
       LET f == local[c] IN
       IF outcome = "error"
         THEN /\ SetLocal(c, Done(Faulted(f), Failure("")))
              /\ UNCHANGED messages
       ELSE IF NotNullViolation(f.user)
         THEN /\ SetLocal(c, Done(f, Failure("")))
              /\ UNCHANGED messages
       ELSE /\ messages' = messages (+) SetToBag({MessageData(f)})
            /\ SetLocal(c, Done(f, Success))
  /\ UNCHANGED <<chat_rooms, room_members, browser>>

\* ---- clearChatHistory, clearAllChatHistory, autoClearHistoryIfNeeded,
\* cleanupOldPublicMessages ---------------------------------------------------
\* (this.userId is never empty: the constructor generates one)
OwnIn(roomId, user) == {m \in BagToSet(messages) : m.room_id = roomId /\ m.user_id = user}
OwnAll(user) == {m \in BagToSet(messages) : m.user_id = user}

DeleteEqRoomUser_NoUserFilter(roomId, user) == DeleteEqRoom(roomId)

\* .delete().eq('room_id', roomId).eq('user_id', this.userId): the rows that stay
DeleteEqRoomUser(roomId, user) == Restrict(messages, BagToSet(messages) \ OwnIn(roomId, user))

\* .delete().eq('user_id', this.userId): the rows that stay
DeleteEqUser(user) == Restrict(messages, BagToSet(messages) \ OwnAll(user))

Removed(f, after) == [f EXCEPT !.removed = BagCardinality(messages) - BagCardinality(after)]

clearChatHistory(c, roomId) ==
  /\ IsIdle(c)
  /\ SetLocal(c, [Frame("clearChatHistory", "ch_delete") EXCEPT
                    !.roomId = roomId, !.user = svcUserId[c]])
  /\ UNCHANGED <<store, browser>>

\* the delete of clearChatHistory; the result is the boolean
ch_delete(c) ==
  /\ At(c, "clearChatHistory", "ch_delete")
  /\ \E outcome \in StoreOutcomes :
       LET f == local[c] IN
       IF outcome = "error"
         THEN /\ SetLocal(c, Done(Faulted(f), Failure("")))
              /\ UNCHANGED messages
         ELSE /\ messages' = DeleteEqRoomUser(f.roomId, f.user)
              /\ SetLocal(c, Done(Removed(f, messages'), Success))
  /\ UNCHANGED <<chat_rooms, room_members, browser>>

clearAllChatHistory(c) ==
  /\ IsIdle(c)
  /\ SetLocal(c, [Frame("clearAllChatHistory", "ca_delete") EXCEPT !.user = svcUserId[c]])
  /\ UNCHANGED <<store, browser>>

\* the delete of clearAllChatHistory
ca_delete(c) ==
  /\ At(c, "clearAllChatHistory", "ca_delete")
  /\ \E outcome \in StoreOutcomes :
       LET f == local[c] IN
       IF outcome = "error"
         THEN /\ SetLocal(c, Done(Faulted(f), Failure("")))
              /\ UNCHANGED messages
         ELSE /\ messages' = DeleteEqUser(f.user)
              /\ SetLocal(c, Done(Removed(f, messages'), Success))
  /\ UNCHANGED <<chat_rooms, room_members, browser>>

\* the call only starts getUserSettings; the result is void
autoClearHistoryIfNeeded(c) ==
  /\ IsIdle(c)
  /\ SetLocal(c, [Frame("autoClearHistoryIfNeeded", "ac_getSettings") EXCEPT
                    !.user = svcUserId[c]])
  /\ UNCHANGED <<store, browser>>

\* getUserSettings(): the user_settings row of this.userId, if there is one,
\* and its auto_clear_history
ac_getSettings(c) ==
  /\ At(c, "autoClearHistoryIfNeeded", "ac_getSettings")
  /\ \E outcome \in StoreOutcomes, auto_clear_history \in BOOLEAN :
       LET f == local[c] IN
       IF outcome = "error" THEN SetLocal(c, Done(Faulted(f), Success))
       ELSE IF ~auto_clear_history THEN SetLocal(c, Done(f, Success))
       ELSE SetLocal(c, Goto(f, "ac_delete"))
  /\ UNCHANGED <<store, browser>>

\* the sub-bags of the messages of user: the rows a filter on the timestamp
\* can pick among them (the model keeps no timestamps)
OlderOwn(user) ==
  {b \in SubBag(messages) : \A m \in BagToSet(b) : m.user_id = user}

\* .delete().lt('timestamp', cutoffDate).eq('user_id', this.userId)
ac_delete(c) ==
  /\ At(c, "autoClearHistoryIfNeeded", "ac_delete")
  /\ \E outcome \in StoreOutcomes :
       LET f == local[c] IN
       IF outcome = "error"
         THEN /\ SetLocal(c, Done(Faulted(f), Success))
              /\ UNCHANGED messages
         ELSE \E old \in OlderOwn(f.user) :
                /\ messages' = messages (-) old
                /\ SetLocal(c, Done(Removed(f, messages'), Success))
  /\ UNCHANGED <<chat_rooms, room_members, browser>>

\* .eq('room_id', 'public'): room_id is a UUID column that references
\* chat_rooms(id), and the text 'public' is the id of no room
PublicLiteral == 0

cleanupOldPublicMessages(c) ==
  /\ IsIdle(c)
  /\ SetLocal(c, [Frame("cleanupOldPublicMessages", "cu_delete") EXCEPT
                    !.roomId = PublicLiteral, !.user = svcUserId[c]])
  /\ UNCHANGED <<store, browser>>

cu_delete_NoRoomFilter(c) ==
  /\ At(c, "cleanupOldPublicMessages", "cu_delete")
  /\ \E outcome \in StoreOutcomes :
       LET f == local[c] IN
       IF outcome = "error"
         THEN /\ SetLocal(c, Done(Faulted(f), Success))
              /\ UNCHANGED messages
         ELSE \E old \in {b \in SubBag(messages) :
                            \A m \in BagToSet(b) : m.user_id # f.user} :
                /\ messages' = messages (-) old
                /\ SetLocal(c, Done(Removed(f, messages'), Success))
  /\ UNCHANGED <<chat_rooms, room_members, browser>>

\* .delete().eq('room_id', 'public').lt('timestamp', twentyFourHoursAgo)
\* .not('user_id', this.userId): at most the rows of that room_id that are
\* not the caller's
cu_delete(c) ==
  /\ At(c, "cleanupOldPublicMessages", "cu_delete")
  /\ \E outcome \in StoreOutcomes :
       LET f == local[c] IN
       IF outcome = "error"
         THEN /\ SetLocal(c, Done(Faulted(f), Success))
              /\ UNCHANGED messages
         ELSE \E old \in {b \in SubBag(messages) :
                            \A m \in BagToSet(b) : m.room_id = f.roomId /\ m.user_id # f.user} :
                /\ messages' = messages (-) old
                /\ SetLocal(c, Done(Removed(f, messages'), Success))
  /\ UNCHANGED <<chat_rooms, room_members, browser>>

\* ---- hashPassword and verifyPassword called on their own ------------------
\* the passwords hashPassword is tabulated for, and the digests handed to
\* verifyPassword: those of the table and '' (room.password_hash || '')
HashInputs == {"", "1234", "0000"}
Digests == {hashPassword(p) : p \in HashInputs} \cup {""}

\* hashPassword(password): the call is pending on crypto.subtle.digest
callHashPassword(c, password) ==
  /\ IsIdle(c)
  /\ SetLocal(c, [Frame("hashPassword", "hp_digest") EXCEPT !.password = password])
  /\ UNCHANGED <<store, browser>>

\* the digest arrives and is returned as lower-case hex
hp_digest(c) ==
  /\ At(c, "hashPassword", "hp_digest")
  /\ SetLocal(c, Done([local[c] EXCEPT !.digest = hashPassword(local[c].password)], Success))
  /\ UNCHANGED <<store, browser>>

\* verifyPassword(password, hashedPassword): the call is pending on
\* hashPassword(password)
callVerifyPassword(c, password, hashedPassword) ==
  /\ IsIdle(c)
  /\ SetLocal(c, [Frame("verifyPassword", "vp_compare") EXCEPT
                    !.password = password, !.hashedPassword = hashedPassword])
  /\ UNCHANGED <<store, browser>>

\* return inputHash === hashedPassword
vp_compare(c) ==
  /\ At(c, "verifyPassword", "vp_compare")
  /\ LET f == local[c] IN
     SetLocal(c, Done(f, IF verifyPassword(f.password, f.hashedPassword)
                           THEN Success ELSE Failure("")))
  /\ UNCHANGED <<store, browser>>

\* ---- PrivateRoomPasswordDialog ---------------------------------------------
\* everything but ui
service == <<store, authUser, svcUser, svcUserId, page, realtimeSubscriptions, local>>

\* the parent shows the dialog
join_open ==
  /\ NoneOpen
  /\ ui' = [ui EXCEPT !.join.isOpen = TRUE]
  /\ UNCHANGED service

\* onChange of the input (disabled while isLoading)
join_handlePasswordChange(value) ==
  /\ ui.join.isOpen /\ ~ui.join.isLoading
  /\ ui' = [ui EXCEPT !.join.password = NumericValue(value), !.join.error = NULL]
  /\ UNCHANGED service

\* onSubmit of the form, up to the call of onJoin; the handler is entered
\* whatever the password is (the button's own length test is not relied on)
join_handleSubmit ==
  /\ ui.join.isOpen /\ ~ui.join.isLoading
  /\ LET e == PasswordError(ui.join.password, "Please enter a password")
     IN IF e # ""
          THEN ui' = [ui EXCEPT !.join.error = e]
          ELSE ui' = [ui EXCEPT !.join.isLoading = TRUE, !.join.error = NULL,
                                !.join.awaiting = TRUE,
                                !.handed = Call("onJoin", ui.join.password)]
  /\ UNCHANGED service

\* the try block after the await, its catch, and no finally
JoinSettled_NoFinally(d, outcome, open) ==
  CASE outcome = "success" ->
         [d EXCEPT !.awaiting = FALSE, !.password = <<>>, !.isOpen = open, !.isLoading = FALSE]
    [] outcome = "failure" ->
         [d EXCEPT !.awaiting = FALSE, !.error = "Failed to join room", !.isLoading = FALSE]
    [] outcome = "throws" ->
         [d EXCEPT !.awaiting = FALSE, !.error = "An unexpected error occurred"]

\* the try block after the await, its catch and its finally
JoinSettled(d, outcome, open) ==
  CASE outcome = "success" ->
         [d EXCEPT !.awaiting = FALSE, !.password = <<>>, !.isOpen = open, !.isLoading = FALSE]
    [] outcome = "failure" ->
         [d EXCEPT !.awaiting = FALSE, !.error = "Failed to join room", !.isLoading = FALSE]
    [] outcome = "throws" ->
         [d EXCEPT !.awaiting = FALSE, !.error = "An unexpected error occurred",
                   !.isLoading = FALSE]

\* the rest of handleSubmit, when onJoin has answered or thrown
join_onJoinReturns ==
  /\ ui.join.awaiting
  /\ \E outcome \in CallbackOutcomes, open \in AfterOnClose :
       ui' = [ui EXCEPT !.join = JoinSettled(@, outcome, open)]
  /\ UNCHANGED service

\* Cancel and onOpenChange: nothing happens while isLoading
join_handleClose ==
  /\ ui.join.isOpen
  /\ \E open \in AfterOnClose :
       IF ui.join.isLoading THEN UNCHANGED ui
       ELSE ui' = [ui EXCEPT !.join = [@ EXCEPT !.password = <<>>, !.error = NULL,
                                                !.isOpen = open]]
  /\ UNCHANGED service

\* ---- CreatePrivateRoomDialog ----------------------------------------------
\* generateNewPassword()
NewPassword(r) == DecimalString(GeneratedNumber(r))

\* if (isOpen && !generatedPassword) generateNewPassword(), at each render
Render(d, r) ==
  IF d.isOpen /\ d.generatedPassword = <<>>
    THEN [d EXCEPT !.generatedPassword = NewPassword(r)]
    ELSE d

\* the fields handleSubmit and handleClose reset
ResetCreate(d) ==
  [d EXCEPT !.roomName = <<>>, !.customPassword = <<>>, !.passwordType = "auto",
            !.generatedPassword = <<>>]

\* the parent shows the dialog
create_open ==
  /\ NoneOpen
  /\ \E r \in RandomDraws :
       ui' = [ui EXCEPT !.create = Render([@ EXCEPT !.isOpen = TRUE], r)]
  /\ UNCHANGED service

\* the refresh button of the auto mode
create_generateNewPassword ==
  /\ ui.create.isOpen /\ ~ui.create.isLoading /\ ui.create.passwordType = "auto"
  /\ \E r \in RandomDraws :
       ui' = [ui EXCEPT !.create.generatedPassword = NewPassword(r)]
  /\ UNCHANGED service

create_setRoomName(value) ==
  /\ ui.create.isOpen /\ ~ui.create.isLoading
  /\ ui' = [ui EXCEPT !.create.roomName = value, !.create.error = NULL]
  /\ UNCHANGED service

create_setPasswordType(value) ==
  /\ ui.create.isOpen /\ ~ui.create.isLoading
  /\ ui' = [ui EXCEPT !.create.passwordType = value, !.create.error = NULL]
  /\ UNCHANGED service

\* onChange of the input of the custom mode
create_handleCustomPasswordChange(value) ==
  /\ ui.create.isOpen /\ ~ui.create.isLoading /\ ui.create.passwordType = "custom"
  /\ ui' = [ui EXCEPT !.create.customPassword = NumericValue(value), !.create.error = NULL]
  /\ UNCHANGED service

\* onSubmit of the form, up to the call of onCreate
create_handleSubmit ==
  /\ ui.create.isOpen /\ ~ui.create.isLoading
  /\ LET d == ui.create
         e == PasswordError(d.customPassword, "Please enter a password")
         call(finalPassword) ==
           [ui EXCEPT !.create.isLoading = TRUE, !.create.error = NULL,
                      !.handed = Call("onCreate", finalPassword)]
     IN IF Trim(d.roomName) = <<>>
          THEN ui' = [ui EXCEPT !.create.error = "Please enter a room name"]
        ELSE IF d.passwordType = "auto" THEN ui' = call(d.generatedPassword)
        ELSE IF e # "" THEN ui' = [ui EXCEPT !.create.error = e]
        ELSE ui' = call(d.customPassword)
  /\ UNCHANGED service

\* the rest of handleSubmit, when onCreate has answered or thrown
create_onCreateReturns ==
  /\ ui.create.isLoading
  /\ \E outcome \in CallbackOutcomes, open \in AfterOnClose, r \in RandomDraws :
       ui' = [ui EXCEPT
                !.create = CASE outcome = "success" ->
                                  Render([ResetCreate(@) EXCEPT !.isOpen = open,
                                                                 !.isLoading = FALSE], r)
                             [] outcome = "failure" ->
                                  [@ EXCEPT !.error = "Failed to create room", !.isLoading = FALSE]
                             [] outcome = "throws" ->
                                  [@ EXCEPT !.error = "An unexpected error occurred",
                                            !.isLoading = FALSE]]
  /\ UNCHANGED service

\* Cancel and onOpenChange
create_handleClose ==
  /\ ui.create.isOpen /\ ~ui.create.isLoading
  /\ \E open \in AfterOnClose, r \in RandomDraws :
       ui' = [ui EXCEPT !.create = Render([ResetCreate(@) EXCEPT !.error = NULL,
                                                                  !.isOpen = open], r)]
  /\ UNCHANGED service

\* ---- PrivateRoomManagement: the owner's password dialog -------------------
\* the Change Password button
owner_showPasswordDialog ==
  /\ NoneOpen
  /\ ui' = [ui EXCEPT !.owner.showPasswordDialog = TRUE]
  /\ UNCHANGED service

owner_handleNewPasswordChange(value) ==
  /\ ui.owner.showPasswordDialog /\ ~ui.owner.isChangingPassword
  /\ ui' = [ui EXCEPT !.owner.newPassword = NumericValue(value), !.owner.error = NULL]
  /\ UNCHANGED service

owner_handleConfirmPasswordChange(value) ==
  /\ ui.owner.showPasswordDialog /\ ~ui.owner.isChangingPassword
  /\ ui' = [ui EXCEPT !.owner.confirmPassword = NumericValue(value), !.owner.error = NULL]
  /\ UNCHANGED service

\* onSubmit of the form, up to the call of onChangePassword
owner_handlePasswordChange ==
  /\ ui.owner.showPasswordDialog /\ ~ui.owner.isChangingPassword
  /\ LET d == ui.owner
         e == PasswordError(d.newPassword, "Please enter a new password")
     IN IF e # "" THEN ui' = [ui EXCEPT !.owner.error = e]
        ELSE IF d.newPassword # d.confirmPassword
          THEN ui' = [ui EXCEPT !.owner.error = "Passwords do not match"]
        ELSE ui' = [ui EXCEPT !.owner.isChangingPassword = TRUE, !.owner.error = NULL,
                              !.handed = Call("onChangePassword", d.newPassword)]
  /\ UNCHANGED service

\* the rest of handlePasswordChange, when onChangePassword has answered or
\* thrown
owner_onChangePasswordReturns ==
  /\ ui.owner.isChangingPassword
  /\ \E outcome \in CallbackOutcomes :
       ui' = [ui EXCEPT
                !.owner = CASE outcome = "success" ->
                                 [@ EXCEPT !.newPassword = <<>>, !.confirmPassword = <<>>,
                                           !.showPasswordDialog = FALSE,
                                           !.isChangingPassword = FALSE]
                            [] outcome = "failure" ->
                                 [@ EXCEPT !.error = "Failed to change password",
                                           !.isChangingPassword = FALSE]
                            [] outcome = "throws" ->
                                 [@ EXCEPT !.error = "An unexpected error occurred",
                                           !.isChangingPassword = FALSE]]
  /\ UNCHANGED service

\* setTimeout(() => setError(null), 5000)
owner_errorTimeout ==
  /\ ui.owner.error # NULL
  /\ ui' = [ui EXCEPT !.owner.error = NULL]
  /\ UNCHANGED service

\* the Cancel button
owner_cancel ==
  /\ ui.owner.showPasswordDialog /\ ~ui.owner.isChangingPassword
  /\ ui' = [ui EXCEPT !.owner = [@ EXCEPT !.showPasswordDialog = FALSE, !.newPassword = <<>>,
                                          !.confirmPassword = <<>>, !.error = NULL]]
  /\ UNCHANGED service

\* onOpenChange={setShowPasswordDialog}: the dialog is dismissed
owner_onOpenChange ==
  /\ ui.owner.showPasswordDialog
  /\ ui' = [ui EXCEPT !.owner.showPasswordDialog = FALSE]
  /\ UNCHANGED service

\* ---- awaited calls that throw or reject -----------------------------------
\* the operations that run with a try/catch around their awaited calls
\* (ChatDatabaseService) and those that run without one (supabase.ts)
CatchingOps == {"joinRoom", "clearPrivateRoom", "sendMessage"}
BareOps == {"createPrivateRoom", "joinPrivateRoom", "clearPrivateRoomHistory"}

\* the exception leaves the operation: its promise rejects
Escaped(f) == [f EXCEPT !.pc = "thrown", !.fault = TRUE]

\* what the caller gets when the call that f awaits throws: the functions of
\* supabase.ts have no try/catch; getRoom and isRoomMember catch and answer
\* null and false; joinRoom, clearPrivateRoom and sendMessage catch and
\* return their failure value
Thrown(f) ==
  IF f.op \in BareOps THEN Escaped(f)
  ELSE IF f.op = "joinRoom"
    THEN Done(Faulted(f), Failure(IF f.pc = "sj_getRoom" THEN "Room not found"
                                  ELSE "Failed to join room"))
  ELSE IF f.op = "clearPrivateRoom"
    THEN Done(Faulted(f), Failure("Failed to clear room history"))
  ELSE Done(Faulted(f), Failure(""))

\* the store call (or the digest) that a running operation awaits throws or
\* rejects; the store is left as it is
awaitedCallThrows(c) ==
  /\ local[c].op \in BareOps \cup CatchingOps
  /\ local[c].pc \notin {"idle", "done", "thrown"}
  /\ SetLocal(c, Thrown(local[c]))
  /\ UNCHANGED <<store, browser>>

\* getCurrentUser() throws in the first statement of an operation that
\* starts with it
getCurrentUserThrows(c, op, roomId) ==
  /\ IsIdle(c)
  /\ op \in BareOps \cup {"clearPrivateRoom"}
  /\ SetLocal(c, Thrown([Frame(op, "getCurrentUser") EXCEPT !.roomId = roomId]))
  /\ UNCHANGED <<store, browser>>

\* the caller's own catch takes the exception
Catch(c) ==
  /\ local[c].pc = "thrown"
  /\ SetLocal(c, Idle)
  /\ UNCHANGED <<store, browser>>

\* ---- ChatApp: the P2P room ------------------------------------------------
\* everything but page
offPage == <<store, authUser, svcUser, svcUserId, ui, realtimeSubscriptions, local>>

CallOutcomes == {"ok", "throws"}

\* resetP2PConnection's four setters
ResetP2P(p) ==
  [p EXCEPT !.p2pRoom = NoP2P, !.sdpOffer = "", !.sdpAnswer = "",
            !.connectionStatus = "disconnected"]

\* new RTCPeerConnection, createDataChannel, setupDataChannel, createOffer,
\* setLocalDescription, setP2pRoom, setSdpOffer; a throw is caught and
\* alerted. The button is rendered while !p2pRoom.isConnected
createP2POffer ==
  /\ ~page.p2pRoom.isConnected
  /\ Len(page.peers) < MaxPeers
  /\ \E outcome \in CallOutcomes :
       IF outcome = "throws" THEN UNCHANGED page
       ELSE LET n == Len(page.peers) + 1 IN
            page' = [page EXCEPT
                       !.peers = Append(@, HostPeer),
                       !.p2pRoom = [peerConnection |-> n, dataChannel |-> n,
                                    isConnected |-> FALSE, isHost |-> TRUE],
                       !.sdpOffer = "sdp"]
  /\ UNCHANGED offPage

\* onChange of the offer text area
setSdpOffer(value) ==
  /\ ~page.p2pRoom.isConnected
  /\ page.sdpOffer # value
  /\ page' = [page EXCEPT !.sdpOffer = value]
  /\ UNCHANGED offPage

\* new RTCPeerConnection with its ondatachannel handler; no offer text:
\* alert and return; JSON.parse or setRemoteDescription throws: caught;
\* else createAnswer, setLocalDescription, setSdpAnswer
acceptP2POffer ==
  /\ ~page.p2pRoom.isConnected
  /\ Len(page.peers) < MaxPeers
  /\ IF page.sdpOffer # "sdp" THEN UNCHANGED page
     ELSE page' = [page EXCEPT !.peers = Append(@, GuestPeer), !.sdpAnswer = "sdp"]
  /\ UNCHANGED offPage

\* onChange of the answer text area
setSdpAnswer(value) ==
  /\ ~page.p2pRoom.isConnected
  /\ page.sdpAnswer # value
  /\ page' = [page EXCEPT !.sdpAnswer = value]
  /\ UNCHANGED offPage

\* no peer connection or no answer text: alert and return; JSON.parse
\* throws, or setRemoteDescription rejects because the connection does not
\* wait for an answer: caught; else setConnectionStatus('connected')
finalizeP2PConnection ==
  /\ ~page.p2pRoom.isConnected
  /\ LET n == page.p2pRoom.peerConnection IN
     IF n = 0 \/ page.sdpAnswer # "sdp" THEN UNCHANGED page
     ELSE IF page.peers[n].signalingState # "have-local-offer" THEN UNCHANGED page
     ELSE page' = [page EXCEPT !.peers[n].signalingState = "stable",
                               !.connectionStatus = "connected"]
  /\ UNCHANGED offPage

\* pc.ondatachannel of acceptP2POffer: setupDataChannel(dc), setP2pRoom
pc_ondatachannel(n) ==
  /\ n \in 1 .. Len(page.peers)
  /\ page.peers[n].role = "guest" /\ page.peers[n].channel = "none"
  /\ page' = [page EXCEPT
                !.peers[n].channel = "opening",
                !.p2pRoom = [@ EXCEPT !.dataChannel = n, !.peerConnection = n,
                                      !.isHost = FALSE]]
  /\ UNCHANGED offPage

\* the transport of a host's channel is up: readyState turns 'open' and the
\* open event is queued
dc_established(n) ==
  /\ n \in 1 .. Len(page.peers)
  /\ page.peers[n].role = "host" /\ page.peers[n].signalingState = "stable"
  /\ page.peers[n].channel = "connecting"
  /\ page' = [page EXCEPT !.peers[n].channel = "opening"]
  /\ UNCHANGED offPage

\* dc.onopen
dc_onopen(n) ==
  /\ n \in 1 .. Len(page.peers)
  /\ page.peers[n].channel = "opening"
  /\ page' = [page EXCEPT !.peers[n].channel = "open",
                          !.connectionStatus = "connected",
                          !.p2pRoom.isConnected = TRUE]
  /\ UNCHANGED offPage

\* the channel closes (the remote side went away, the connection failed);
\* dc.onclose: setConnectionStatus('disconnected'), resetP2PConnection()
dc_onclose(n) ==
  /\ n \in 1 .. Len(page.peers)
  /\ page.peers[n].channel \in {"connecting", "opening", "open"}
  /\ page' = ResetP2P([page EXCEPT !.peers[n].channel = "closed"])
  /\ UNCHANGED offPage

\* the button that is rendered while p2pRoom.isConnected; the connection
\* and its channel are not closed
resetP2PConnection ==
  /\ page.p2pRoom.isConnected
  /\ page' = ResetP2P(page)
  /\ UNCHANGED offPage

\* ---- ChatApp: attachments --------------------------------------------------
\* 10 * 1024 * 1024
SizeLimit == 10 * 1024 * 1024

\* the File objects of the model: one of exactly the limit, one a byte
\* above it, one small
Files ==
  { [name |-> "a.bin", size |-> SizeLimit],
    [name |-> "b.bin", size |-> SizeLimit + 1],
    [name |-> "c.txt", size |-> 1] }

TooLarge_AtLimit(file) == file.size >= SizeLimit

\* file.size > 10 * 1024 * 1024
TooLarge(file) == file.size > SizeLimit

\* the Attachment of a file (its id is random, its data the base64 of the
\* content)
fileToAttachment(file) == [name |-> file.name, size |-> file.size]

\* for (const file of files): skip with an alert when too large, else push
\* fileToAttachment(file)
RECURSIVE processFiles(_)
processFiles(files) ==
  IF files = <<>> THEN <<>>
  ELSE IF TooLarge(Head(files)) THEN processFiles(Tail(files))
  ELSE <<fileToAttachment(Head(files))>> \o processFiles(Tail(files))

Rooms2 == {"public", "private"}
AttachmentsOf(p, room) == IF room = "private" THEN p.privateAttachments ELSE p.publicAttachments
WithAttachments(p, room, files) ==
  IF room = "private" THEN [p EXCEPT !.privateAttachments = files]
  ELSE [p EXCEPT !.publicAttachments = files]

\* the data channel of the room is there and its readyState is 'open'
ChannelOpen(p) ==
  /\ p.p2pRoom.dataChannel # 0
  /\ ReadyState(p.peers[p.p2pRoom.dataChannel]) = "open"

\* setXAttachments(prev => [...prev, ...files]); the private file input is
\* disabled while !p2pRoom.isConnected
handleFileSelect(file, room) ==
  /\ room = "private" => page.p2pRoom.isConnected
  /\ Len(AttachmentsOf(page, room)) < MaxFiles
  /\ \A i \in 1 .. Len(AttachmentsOf(page, room)) : AttachmentsOf(page, room)[i] # file
  /\ page' = WithAttachments(page, room, Append(AttachmentsOf(page, room), file))
  /\ UNCHANGED offPage

\* setXAttachments(prev => prev.filter((_, i) => i !== index))
removeAttachment(index, room) ==
  /\ index \in 1 .. Len(AttachmentsOf(page, room))
  /\ LET files == AttachmentsOf(page, room) IN
     page' = WithAttachments(page, room,
               SubSeq(files, 1, index - 1) \o SubSeq(files, index + 1, Len(files)))
  /\ UNCHANGED offPage

\* sendPublicMessage and sendPrivateMessage up to their await of
\* processFiles: the guard on text and attachments (hasText: the input has
\* text that is not blank; the profile has a name), for the private room the
\* guard on the data channel. One send is in flight at a time
sendStarts(room, hasText) ==
  /\ page.sending = NoSend
  /\ hasText \/ AttachmentsOf(page, room) # <<>>
  /\ room = "private" => ChannelOpen(page)
  /\ page' = [page EXCEPT !.sending = [room |-> room, files |-> AttachmentsOf(page, room)]]
  /\ UNCHANGED offPage

\* the rest of the send: createMessage(input, attachments), the message is
\* put into the local list and posted (BroadcastChannel, or
\* dataChannel.send, which throws on a channel that is no longer open and
\* then leaves the composer as it is), saveMessage('public' | 'private', ..)
\* is refused by the store (room_id is a UUID column), the composer is
\* emptied
sendCompletes ==
  /\ page.sending # NoSend
  /\ LET s == page.sending
         message == [room |-> s.room, files |-> s.files, attachments |-> processFiles(s.files)]
         posted == [page EXCEPT !.sending = NoSend, !.sent = message]
     IN IF s.room = "private" /\ ~ChannelOpen(page)
          THEN page' = posted
          ELSE page' = WithAttachments(posted, s.room, <<>>)
  /\ UNCHANGED offPage

\* ---- saveMessage -----------------------------------------------------------
\* messages.room_id is a UUID that references chat_rooms(id): an insert
\* under the literal 'public' or 'private', or under the id of no room, is
\* refused
RoomIdRefused(roomId) == RoomsById(roomId) = {}

\* if (!this.userId) return null - the constructor has set this.userId
saveMessage(c, roomId, userName) ==
  /\ IsIdle(c)
  /\ BagCardinality(messages) < MaxMsgs
  /\ SetLocal(c, [Frame("saveMessage", "sv_insert") EXCEPT
                    !.roomId = roomId, !.userName = userName, !.user = svcUserId[c]])
  /\ UNCHANGED <<store, browser>>

\* from('messages').insert({...message, room_id: roomId, user_id:
\* this.userId, timestamp}).select().single(); an error and a throw both
\* give null
sv_insert(c) ==
  /\ At(c, "saveMessage", "sv_insert")
  /\ \E outcome \in StoreOutcomes :
       LET f == local[c] IN
       IF outcome = "error"
         THEN /\ SetLocal(c, Done(Faulted(f), Failure("")))
              /\ UNCHANGED messages
       ELSE IF RoomIdRefused(f.roomId)
         THEN /\ SetLocal(c, Done(f, Failure("")))
              /\ UNCHANGED messages
       ELSE /\ messages' = messages (+) SetToBag({[room_id |-> f.roomId, user_id |-> f.user,
                                                    user_name |-> f.userName, content |-> "hi"]})
            /\ SetLocal(c, Done(f, Success))
  /\ UNCHANGED <<chat_rooms, room_members, browser>>

\* ---- realtime subscriptions ------------------------------------------------
\* everything but realtimeSubscriptions
offRealtime == <<store, authUser, svcUser, svcUserId, ui, page, local>>

\* supabase.removeChannel(channel)
RemoveChannel(channels, n) ==
  IF n = 0 THEN channels ELSE [channels EXCEPT ![n].active = FALSE]

\* the channel stored under the name is removed, a new channel is made and
\* subscribed and stored under the name; the function that is returned is
\* kept by the caller (cleanupFunction of the new channel's position)
setupPublicRoomRealtime(roomId) ==
  /\ Len(realtimeSubscriptions.channels) < MaxChannels
  /\ LET s == realtimeSubscriptions
         removed == RemoveChannel(s.channels, s.map[roomId])
     IN realtimeSubscriptions' =
          [map |-> [s.map EXCEPT ![roomId] = Len(s.channels) + 1],
           channels |-> Append(removed, [room |-> roomId, active |-> TRUE])]
  /\ UNCHANGED offRealtime

\* the function setupPublicRoomRealtime returned for channel n:
\* supabase.removeChannel(subscription);
\* this.realtimeSubscriptions.delete(channelName)
cleanupFunction(n) ==
  /\ n \in 1 .. Len(realtimeSubscriptions.channels)
  /\ LET s == realtimeSubscriptions IN
     realtimeSubscriptions' =
       [map |-> [s.map EXCEPT ![s.channels[n].room] = 0],
        channels |-> RemoveChannel(s.channels, n)]
  /\ UNCHANGED offRealtime

\* forEach(subscription => supabase.removeChannel(subscription)); clear()
cleanup ==
  /\ LET s == realtimeSubscriptions IN
     realtimeSubscriptions' =
       [map |-> [r \in RealtimeRooms |-> 0],
        channels |-> [n \in 1 .. Len(s.channels) |->
                        IF \E r \in RealtimeRooms : s.map[r] = n
                          THEN [s.channels[n] EXCEPT !.active = FALSE]
                          ELSE s.channels[n]]]
  /\ UNCHANGED offRealtime

\* ---- specifications -------------------------------------------------------
\* one browser session, one operation at a time; the session signs in and
\* out as either account, so it stands for any number of sessions that take
\* turns
Session == {"c1"}

SessionSteps(c) ==
  \/ \E a \in Accounts : signInWithEmail(c, a)
  \/ signOut(c)
  \/ initializeAuth(c)
  \/ Return(c)

CreateSteps(c, pws) ==
  \/ \E n \in RoomNames, p \in pws : createPrivateRoom(c, n, p)
  \/ cr_insertRoom(c)
  \/ cr_insertMember(c)

JoinPrivateSteps(c, ids, pws) ==
  \/ \E r \in ids, p \in pws : joinPrivateRoom(c, r, p)
  \/ jp_selectRoom(c)
  \/ jp_insertMember(c)

JoinSteps(c, ids) ==
  \/ JoinPrivateSteps(c, ids, Passwords)
  \/ \E r \in ids, p \in Passwords : joinRoom(c, r, p)
  \/ sj_getRoom(c)
  \/ af_selectMember(c)

MemberSteps(c) ==
  \/ \E r \in RoomIdInputs : isRoomMember(c, r)
  \/ im_select(c)

MessageSteps(c, names) ==
  \/ \E r \in RoomIdInputs : clearPrivateRoomHistory(c, r)
  \/ cp_selectRoom(c)
  \/ cp_delete(c)
  \/ \E r \in RoomIdInputs, u \in names : sendMessage(c, r, u)
  \/ sm_getRoom(c)
  \/ sm_isMember(c)
  \/ sm_insert(c)

\* rooms and memberships: creation, admission on both paths, the lookup
Next ==
  \E c \in Session :
    \/ SessionSteps(c)
    \/ CreateSteps(c, Passwords)
    \/ JoinSteps(c, RoomIdInputs)
    \/ MemberSteps(c)

Spec == Init /\ [][Next]_vars

\* messages: rooms are created with the one password "1234" and joined
\* through joinPrivateRoom with that password (no step on messages reads a
\* password); every message is sent under the one display name "Ann"
NextMsg ==
  \E c \in Session :
    \/ SessionSteps(c)
    \/ CreateSteps(c, {"1234"})
    \/ JoinPrivateSteps(c, PrivateIdInputs, {"1234"})
    \/ MessageSteps(c, {"Ann"})

SpecMsg == Init /\ [][NextMsg]_vars

\* the history of messages: rooms are created, messages are sent and taken
\* away by every operation that deletes from messages
HistorySteps(c) ==
  \/ \E r \in RoomIdInputs : clearChatHistory(c, r)
  \/ ch_delete(c)
  \/ clearAllChatHistory(c)
  \/ ca_delete(c)
  \/ autoClearHistoryIfNeeded(c)
  \/ ac_getSettings(c)
  \/ ac_delete(c)
  \/ cleanupOldPublicMessages(c)
  \/ cu_delete(c)

NextHist ==
  \E c \in Session :
    \/ SessionSteps(c)
    \/ CreateSteps(c, {"1234"})
    \/ MessageSteps(c, {"Ann"})
    \/ HistorySteps(c)

SpecHist == Init /\ [][NextHist]_vars

\* the credential hasher on its own: two sessions hash and verify the
\* passwords of HashInputs against the digests of Digests
NextHash ==
  \E c \in Clients :
    \/ Return(c)
    \/ \E p \in HashInputs : callHashPassword(c, p)
    \/ hp_digest(c)
    \/ \E p \in HashInputs, h \in Digests : callVerifyPassword(c, p, h)
    \/ vp_compare(c)

SpecHash == Init /\ [][NextHash]_vars

\* the three dialogs and what they hand to their callbacks; the service
\* behind the callbacks takes no step
NextDialogs ==
  \/ join_open
  \/ \E v \in TypedValues : join_handlePasswordChange(v)
  \/ join_handleSubmit
  \/ join_onJoinReturns
  \/ join_handleClose
  \/ create_open
  \/ create_generateNewPassword
  \/ \E v \in TypedNames : create_setRoomName(v)
  \/ \E t \in {"auto", "custom"} : create_setPasswordType(t)
  \/ \E v \in TypedValues : create_handleCustomPasswordChange(v)
  \/ create_handleSubmit
  \/ create_onCreateReturns
  \/ create_handleClose
  \/ owner_showPasswordDialog
  \/ \E v \in TypedValues : owner_handleNewPasswordChange(v)
  \/ \E v \in TypedValues : owner_handleConfirmPasswordChange(v)
  \/ owner_handlePasswordChange
  \/ owner_onChangePasswordReturns
  \/ owner_errorTimeout
  \/ owner_cancel
  \/ owner_onOpenChange

SpecDialogs == Init /\ [][NextDialogs]_vars

\* one session, signed in and initialised, whose awaited calls answer, fail
\* or throw
InitThrow ==
  /\ chat_rooms = SeedRooms
  /\ room_members = EmptyBag
  /\ messages = EmptyBag
  /\ \E a \in Accounts :
       /\ authUser = [c \in Clients |-> IF c \in Session THEN a ELSE NULL]
       /\ svcUser = authUser
       /\ svcUserId = [c \in Clients |-> IF c \in Session THEN a ELSE AnonymousId(c)]
  /\ ui = NoUi
  /\ page = NoPage
  /\ realtimeSubscriptions = NoSubscriptions
  /\ local = [c \in Clients |-> Idle]

NextThrow ==
  \E c \in Session :
    \/ Return(c)
    \/ Catch(c)
    \/ CreateSteps(c, {"1234"})
    \/ JoinPrivateSteps(c, PrivateIdInputs, {"1234"})
    \/ \E r \in PrivateIdInputs : joinRoom(c, r, "1234")
    \/ sj_getRoom(c)
    \/ af_selectMember(c)
    \/ MessageSteps(c, {"Ann"})
    \/ \E r \in PrivateIdInputs : clearPrivateRoom(c, r)
    \/ awaitedCallThrows(c)
    \/ \E op \in BareOps \cup {"clearPrivateRoom"}, r \in PrivateIdInputs :
         getCurrentUserThrows(c, op, r)

SpecThrow == InitThrow /\ [][NextThrow]_vars

\* the P2P room of one tab: its buttons, its text areas and the events of
\* the connections it made
NextP2P ==
  \/ createP2POffer
  \/ \E value \in SdpTexts : setSdpOffer(value)
  \/ acceptP2POffer
  \/ \E value \in SdpTexts : setSdpAnswer(value)
  \/ finalizeP2PConnection
  \/ \E n \in 1 .. MaxPeers :
       \/ pc_ondatachannel(n)
       \/ dc_established(n)
       \/ dc_onopen(n)
       \/ dc_onclose(n)
  \/ resetP2PConnection

SpecP2P == Init /\ [][NextP2P]_vars

\* a tab whose P2P room is connected: the host's offer was answered and its
\* channel has opened
ConnectedPage ==
  [NoPage EXCEPT
     !.peers = <<[role |-> "host", signalingState |-> "stable", channel |-> "open"]>>,
     !.p2pRoom = [peerConnection |-> 1, dataChannel |-> 1, isConnected |-> TRUE, isHost |-> TRUE],
     !.sdpOffer = "sdp", !.sdpAnswer = "sdp", !.connectionStatus = "connected"]

\* the composers of the public and the private room, in a tab without and
\* in a tab with a connected P2P room
InitFiles ==
  /\ chat_rooms = SeedRooms
  /\ room_members = EmptyBag
  /\ messages = EmptyBag
  /\ authUser = [c \in Clients |-> NULL]
  /\ svcUser = [c \in Clients |-> NULL]
  /\ svcUserId = [c \in Clients |-> AnonymousId(c)]
  /\ ui = NoUi
  /\ page \in {NoPage, ConnectedPage}
  /\ realtimeSubscriptions = NoSubscriptions
  /\ local = [c \in Clients |-> Idle]

NextFiles ==
  \/ \E file \in Files, room \in Rooms2 : handleFileSelect(file, room)
  \/ \E index \in 1 .. MaxFiles, room \in Rooms2 : removeAttachment(index, room)
  \/ \E room \in Rooms2, hasText \in BOOLEAN : sendStarts(room, hasText)
  \/ sendCompletes

SpecFiles == InitFiles /\ [][NextFiles]_vars

\* the two operations that write messages, sendMessage and saveMessage, on
\* rooms that are created meanwhile
NextSave ==
  \E c \in Session :
    \/ SessionSteps(c)
    \/ CreateSteps(c, {"1234"})
    \/ MessageSteps(c, {"Ann"})
    \/ \E r \in RoomIdInputs : saveMessage(c, r, "Ann")
    \/ sv_insert(c)

SpecSave == Init /\ [][NextSave]_vars

\* the subscriptions of one service: channels are set up, the functions
\* that were returned are invoked in any order and any number of times,
\* cleanup() is called
NextRealtime ==
  \/ \E roomId \in RealtimeRooms : setupPublicRoomRealtime(roomId)
  \/ \E n \in 1 .. MaxChannels : cleanupFunction(n)
  \/ cleanup

SpecRealtime == Init /\ [][NextRealtime]_vars

\* two sessions, each signed in and initialised, creating private rooms
\* (password "1234") and joining private rooms (any password) at the same
\* time; the store is the seeded one, or one in which an account has
\* created a room before (room insert and creator membership done)
EarlierRoom(owner) ==
  [id |-> 3, name |-> "Vault", type |-> "private",
   password_hash |-> hashPassword("1234"), owner_id |-> owner]

InitConc ==
  /\ \/ /\ chat_rooms = SeedRooms
        /\ room_members = EmptyBag
     \/ \E owner \in Accounts :
          /\ chat_rooms = SeedRooms \cup {EarlierRoom(owner)}
          /\ room_members = SetToBag({Member(3, owner)})
  /\ messages = EmptyBag
  /\ authUser \in [Clients -> Accounts]
  /\ svcUser = authUser
  /\ svcUserId = authUser
  /\ ui = NoUi
  /\ page = NoPage
  /\ realtimeSubscriptions = NoSubscriptions
  /\ local = [c \in Clients |-> Idle]

NextConc ==
  \E c \in Clients :
    \/ Return(c)
    \/ CreateSteps(c, {"1234"})
    \/ JoinSteps(c, PrivateIdInputs)

SpecConc == InitConc /\ [][NextConc]_vars

\* ---- properties -----------------------------------------------------------
\* the session whose call frame a step changes
Acted(c) == local'[c] # local[c]

HasRoom(roomId) == RoomsById(roomId) # {}
RoomOf(roomId) == SingleRow(RoomsById(roomId))
IsPrivate(roomId) == HasRoom(roomId) /\ RoomOf(roomId).type = "private"
\* the digest of the password differs from the digest the room stores
WrongPassword(roomId, password) ==
  IsPrivate(roomId) /\ hashPassword(password) # HashOrEmpty(RoomOf(roomId).password_hash)
InvalidPassword == Failure("Invalid password")

\* a join of an authenticated account (known to the identity provider and,
\* on the service path, to the service) with a wrong, non-empty password
WrongJoin(c, f) ==
  /\ f.op \in JoinOps /\ f.pc # "idle"
  /\ f.user # NULL /\ svcUser[c] = f.user
  /\ f.password # ""
  /\ WrongPassword(f.roomId, f.password)

ServiceJoinAnswer(c, f) ==
  IF svcUser[c] = NULL THEN Failure("Authentication required for private rooms")
  ELSE IF f.password = "" THEN Failure("Password required for private rooms")
  ELSE IF f.user = NULL THEN InvalidPassword
  ELSE IF MembersOf(f.roomId, f.user) = 1 THEN Success
  ELSE InvalidPassword

CreatedWith(roomId, password) ==
  /\ IsPrivate(roomId)
  /\ RoomOf(roomId).password_hash # NULL
  /\ RoomOf(roomId).password_hash = hashPassword(password)

\* C2: joinPrivateRoom by an authenticated account with the password the
\* room was created with returns success when the store answers, and leaves
\* a membership record of the pair; no step removes a membership record; an
\* isRoomMember query for a pair that has its record returns true when the
\* store answers. Hence isRoomMember after a successful join is true.
C2_JoinThenIsMember ==
  [][/\ \A m \in BagToSet(room_members) : CopiesIn(m, room_members') >= CopiesIn(m, room_members)
     /\ \A c \in Clients :
          LET f == local'[c] IN
          /\ (Acted(c) /\ f.op = "joinPrivateRoom" /\ f.pc = "done" /\ f.user # NULL
                /\ ~f.fault /\ CreatedWith(f.roomId, f.password))
               => (f.result = Success /\ CopiesIn(Member(f.roomId, f.user), room_members') = 1)
          /\ (Acted(c) /\ f.op = "isRoomMember" /\ f.pc = "done" /\ ~f.fault
                /\ MembersOf(f.roomId, f.user) = 1)
               => f.result = Success]_vars

\* isRoomMember has answered true for an account that is not the owner of
\* the room: its membership record comes from a join
C2_Witness ==
  \E c \in Clients :
    /\ At(c, "isRoomMember", "done")
    /\ local[c].result = Success
    /\ IsPrivate(local[c].roomId)
    /\ RoomOf(local[c].roomId).owner_id # local[c].user

\* a finished join with the right password in which no store call failed;
\* on the service path the password is non-empty and the service knows the
\* account
RightJoinDone(c) ==
  LET f == local[c] IN
  /\ f.op \in JoinOps /\ f.pc = "done"
  /\ f.user # NULL /\ ~f.fault
  /\ f.op = "joinRoom" => (svcUser[c] # NULL /\ f.password # "")
  /\ CreatedWith(f.roomId, f.password)

\* C3: every join with the right password returns success, the first and
\* any later one, and the store then holds exactly one membership record of
\* the pair; the 23505 that a repeated insert gets is answered with success.
C3_IdempotentJoin ==
  \A c \in Clients :
    /\ RightJoinDone(c) =>
         (local[c].result = Success /\ MembersOf(local[c].roomId, local[c].user) = 1)
    /\ (local[c].op \in JoinOps /\ local[c].pc = "done" /\ local[c].memberError = "23505")
         => /\ local[c].result = Success
            /\ MembersOf(local[c].roomId, local[c].user) = 1

\* an account that is not the owner has joined a second time: its insert
\* got 23505, the call returned success and one record is there
C3_Witness ==
  \E c \in Clients :
    /\ At(c, "joinPrivateRoom", "done")
    /\ local[c].memberError = "23505"
    /\ RoomOf(local[c].roomId).owner_id # local[c].user
    /\ local[c].result = Success
    /\ MembersOf(local[c].roomId, local[c].user) = 1

\* C4: in every interleaving of creations and joins of two sessions no pair
\* (room, account) has two membership records, and every join that read a
\* private room whose digest is the digest of its password returns success
\* when no store call of it failed (on the service path: for a non-empty
\* password), also when the same account joins the same room from both
\* sessions at once.
C4_ConcurrentJoin ==
  /\ \A m \in BagToSet(room_members) : CopiesIn(m, room_members) = 1
  /\ \A c \in Clients :
       LET f == local[c] IN
       (/\ f.op \in JoinOps /\ f.pc = "done"
        /\ f.user # NULL /\ ~f.fault
        /\ f.op = "joinRoom" => f.password # ""
        /\ f.room.type = "private"
        /\ f.room.password_hash = hashPassword(f.password))
         => f.result = Success

\* both sessions have joined the same room as the same account, which is
\* not its owner; both inserts were sent, one got 23505, both calls
\* returned success
C4_Witness ==
  /\ local["c1"].op \in JoinOps /\ local["c1"].pc = "done"
  /\ local["c2"].op \in JoinOps /\ local["c2"].pc = "done"
  /\ local["c1"].roomId = local["c2"].roomId
  /\ local["c1"].user = local["c2"].user
  /\ local["c1"].room.owner_id # local["c1"].user
  /\ {local["c1"].memberError, local["c2"].memberError} = {"none", "23505"}
  /\ local["c1"].result = Success /\ local["c2"].result = Success
  /\ MembersOf(local["c1"].roomId, local["c1"].user) = 1

Forbidden == Failure("Only room owner can clear history")

\* C5: a clearPrivateRoomHistory call of an authenticated account that is
\* not the owner of the (existing) room deletes no message of any room and,
\* when the store answers, returns 'Only room owner can clear history'.
C5_NonOwnerClear ==
  [][\A c \in Clients :
       LET f == local'[c] IN
       (/\ Acted(c) /\ f.op = "clearPrivateRoomHistory" /\ f.pc # "idle"
        /\ f.user # NULL /\ HasRoom(f.roomId)
        /\ RoomOf(f.roomId).owner_id # f.user)
         => /\ messages' = messages
            /\ (f.pc = "done" /\ ~f.fault) => f.result = Forbidden]_vars

\* an account was refused on a room that another account owns and that
\* holds messages
C5_Witness ==
  \E c \in Clients :
    /\ At(c, "clearPrivateRoomHistory", "done")
    /\ local[c].result = Forbidden
    /\ local[c].user # NULL
    /\ RoomOf(local[c].roomId).owner_id \notin {NULL, local[c].user}
    /\ MessagesIn(local[c].roomId) # {}

\* C6: the step in which a clearPrivateRoomHistory call succeeds is taken for
\* the owner of the room, leaves no message of that room and leaves the
\* messages of every other room as they were.
C6_OwnerClear ==
  [][\A c \in Clients :
       LET f == local'[c] IN
       (/\ Acted(c) /\ f.op = "clearPrivateRoomHistory" /\ f.pc = "done"
        /\ f.result = Success)
         => /\ RoomOf(f.roomId).owner_id = f.user
            /\ \A m \in BagToSet(messages') : m.room_id # f.roomId
            /\ \A m \in BagToSet(messages) :
                 m.room_id # f.roomId => CopiesIn(m, messages') = CopiesIn(m, messages)]_vars

\* an owner's clear took messages away while another room keeps its own
C6_Witness ==
  \E c \in Clients :
    /\ At(c, "clearPrivateRoomHistory", "done")
    /\ local[c].result = Success
    /\ local[c].removed > 0
    /\ MessagesIn(local[c].roomId) = {}
    /\ \E m \in BagToSet(messages) : m.room_id # local[c].roomId

\* C7: a sendMessage call on a private room for which the service's current
\* user has no membership record (or when the service has no current user)
\* inserts no message and returns null.
C7_NonMemberSend ==
  [][\A c \in Clients :
       LET f == local'[c] IN
       (/\ Acted(c) /\ f.op = "sendMessage" /\ f.pc # "idle"
        /\ IsPrivate(f.roomId)
        /\ MembersOf(f.roomId, f.user) = 0)
         => /\ messages' = messages
            /\ f.pc = "done" => f.result = Failure("")]_vars

\* an account without membership record was refused on a room that exists
\* and has a member
C7_Witness ==
  \E c \in Clients :
    /\ At(c, "sendMessage", "done")
    /\ local[c].user # NULL
    /\ ~local[c].fault
    /\ IsPrivate(local[c].roomId)
    /\ MembersOf(local[c].roomId, local[c].user) = 0
    /\ MembersOf(local[c].roomId, RoomOf(local[c].roomId).owner_id) = 1
    /\ local[c].result = Failure("")

\* C8: when createPrivateRoom returns a room id without error, the store
\* holds the room with that id, private, with the digest of the password
\* and the caller as owner, and a membership record (room, caller).
C8_CreateResult ==
  \A c \in Clients :
    LET f == local[c] IN
    (f.op = "createPrivateRoom" /\ f.pc = "done" /\ f.result.ok) =>
      /\ HasRoom(f.result.value)
      /\ RoomOf(f.result.value).type = "private"
      /\ RoomOf(f.result.value).password_hash = hashPassword(f.password)
      /\ RoomOf(f.result.value).owner_id = f.user
      /\ MembersOf(f.result.value, f.user) >= 1

Unauthenticated == Failure("Authentication required to create private room")

\* C9: createPrivateRoom without authenticated account is over in its first
\* step: it returns the empty room id with 'Authentication required to
\* create private room' and changes neither rooms nor memberships.
C9_UnauthenticatedCreate ==
  [][\A c \in Clients :
       LET f == local'[c] IN
       (Acted(c) /\ f.op = "createPrivateRoom" /\ f.pc # "idle" /\ f.user = NULL)
         => /\ f.pc = "done"
            /\ f.result = Unauthenticated
            /\ chat_rooms' = chat_rooms
            /\ room_members' = room_members]_vars

\* the refusal happened in a store that already holds a created room
C9_Witness ==
  \E c \in Clients :
    /\ At(c, "createPrivateRoom", "done")
    /\ authUser[c] = NULL
    /\ local[c].result = Unauthenticated
    /\ Cardinality(chat_rooms) = 3

\* C10: when the membership insert of createPrivateRoom fails, the room it
\* inserted stays in the store, owned by the caller, and the owner has no
\* membership record.
C10_NoRollback ==
  \A c \in Clients :
    LET f == local[c] IN
    (f.op = "createPrivateRoom" /\ f.pc = "done" /\ f.memberError = "other") =>
      /\ HasRoom(f.dataId)
      /\ RoomOf(f.dataId).owner_id = f.user
      /\ MembersOf(f.dataId, f.user) = 0

\* the private room whose owner has no membership record
C10_Witness ==
  \E c \in Clients :
    /\ At(c, "createPrivateRoom", "done")
    /\ local[c].memberError = "other"
    /\ \E r \in chat_rooms :
         /\ r.type = "private" /\ r.owner_id = local[c].user /\ r.id = local[c].dataId
         /\ MembersOf(r.id, r.owner_id) = 0

WrongRoomKind == Failure("Not a private room")
IsNotPrivate(roomId) == HasRoom(roomId) /\ RoomOf(roomId).type # "private"

\* C11 as stated: on both join paths a join of an authenticated account on
\* an existing room that is not private creates no membership record and,
\* when the store answers, returns 'Not a private room'.
C11_Original ==
  [][\A c \in Clients :
       LET f == local'[c] IN
       (/\ Acted(c) /\ f.op \in JoinOps /\ f.pc # "idle"
        /\ f.user # NULL /\ IsNotPrivate(f.roomId))
         => /\ room_members' = room_members
            /\ (f.pc = "done" /\ ~f.fault) => f.result = WrongRoomKind]_vars

\* C11 as amended: a join on an existing room that is not private creates no
\* membership record on either path. joinPrivateRoom by an authenticated
\* account returns 'Not a private room' when the store answers.
\* ChatDatabaseService.joinRoom returns success for such a room when the
\* store answers, whoever calls and whatever the password.
C11_NonPrivateJoin ==
  [][\A c \in Clients :
       LET f == local'[c] IN
       (Acted(c) /\ f.op \in JoinOps /\ f.pc # "idle" /\ IsNotPrivate(f.roomId))
         => /\ room_members' = room_members
            /\ (f.pc = "done" /\ ~f.fault /\ f.op = "joinPrivateRoom" /\ f.user # NULL)
                 => f.result = WrongRoomKind
            /\ (f.pc = "done" /\ ~f.fault /\ f.op = "joinRoom")
                 => f.result = Success]_vars

\* an account that is a member of a private room was refused on the public
\* room by joinPrivateRoom
C11_Witness ==
  \E c \in Clients :
    /\ At(c, "joinPrivateRoom", "done")
    /\ IsNotPrivate(local[c].roomId)
    /\ local[c].user # NULL
    /\ local[c].result = WrongRoomKind
    /\ \E r \in chat_rooms : MembersOf(r.id, local[c].user) = 1

NotFound == Failure("Room not found")

\* C12 as stated: on both join paths a join on a room id that no room has
\* returns 'Room not found', with or without an authenticated account.
C12_Original ==
  \A c \in Clients :
    LET f == local[c] IN
    (f.op \in JoinOps /\ f.pc = "done" /\ ~HasRoom(f.roomId)) => f.result = NotFound

\* C12 as amended: ChatDatabaseService.joinRoom on a room id that no room
\* has returns 'Room not found' with or without an authenticated account:
\* its lookup comes before its authentication check. joinPrivateRoom checks
\* the account first: without an authenticated account it returns
\* 'Authentication required to join private room' in its first step, before
\* any lookup, and with one it returns 'Room not found'. Neither changes the
\* membership records.
C12_AbsentRoomJoin ==
  [][\A c \in Clients :
       LET f == local'[c] IN
       (Acted(c) /\ f.op \in JoinOps /\ f.pc # "idle" /\ ~HasRoom(f.roomId))
         => /\ room_members' = room_members
            /\ (f.op = "joinRoom" /\ f.pc = "done") => f.result = NotFound
            /\ (f.op = "joinRoom" /\ f.pc # "done") => f.pc = "sj_getRoom"
            /\ (f.op = "joinPrivateRoom" /\ f.user = NULL)
                 => (f.pc = "done" /\ local[c].pc = "idle"
                     /\ f.result = Failure("Authentication required to join private room"))
            /\ (f.op = "joinPrivateRoom" /\ f.user # NULL /\ f.pc = "done")
                 => f.result = NotFound]_vars

\* the service path has answered 'Room not found' to a caller without
\* account, in a store that holds a created room
C12_Witness ==
  \E c \in Clients :
    /\ At(c, "joinRoom", "done")
    /\ ~HasRoom(local[c].roomId)
    /\ authUser[c] = NULL /\ svcUser[c] = NULL
    /\ local[c].result = NotFound
    /\ Cardinality(chat_rooms) = 3

\* C13 as stated: clearPrivateRoomHistory on a room id that no room has
\* returns 'Room not found' for every caller, also without an authenticated
\* account, and deletes no message.
C13_Original ==
  [][\A c \in Clients :
       LET f == local'[c] IN
       (Acted(c) /\ f.op = "clearPrivateRoomHistory" /\ f.pc # "idle" /\ ~HasRoom(f.roomId))
         => /\ messages' = messages
            /\ f.pc = "done" => f.result = NotFound]_vars

\* C13 as amended: clearPrivateRoomHistory on a room id that no room has
\* deletes no message; for an authenticated account it returns 'Room not
\* found'; without an authenticated account it returns 'Authentication
\* required' in its first step, before any lookup.
C13_AbsentRoomClear ==
  [][\A c \in Clients :
       LET f == local'[c] IN
       (Acted(c) /\ f.op = "clearPrivateRoomHistory" /\ f.pc # "idle" /\ ~HasRoom(f.roomId))
         => /\ messages' = messages
            /\ (f.user # NULL /\ f.pc = "done") => f.result = NotFound
            /\ f.user = NULL
                 => (f.pc = "done" /\ local[c].pc = "idle"
                     /\ f.result = Failure("Authentication required"))]_vars

\* an authenticated account got 'Room not found' while the store holds
\* messages
C13_Witness ==
  \E c \in Clients :
    /\ At(c, "clearPrivateRoomHistory", "done")
    /\ ~HasRoom(local[c].roomId)
    /\ local[c].user # NULL
    /\ local[c].result = NotFound
    /\ messages # EmptyBag

StoreFailure == Failure(StoreErrorMessage)

\* C14 as stated: when the membership insert of joinPrivateRoom fails with
\* an error other than the uniqueness violation, the call returns a failure
\* carrying the store's error and no membership record of the pair exists
\* afterwards; only the uniqueness violation is answered with success.
C14_Original ==
  \A c \in Clients :
    LET f == local[c] IN
    /\ (f.op = "joinPrivateRoom" /\ f.pc = "done" /\ f.memberError = "other")
         => (f.result = StoreFailure /\ MembersOf(f.roomId, f.user) = 0)
    /\ (f.op = "joinPrivateRoom" /\ f.pc = "done" /\ f.memberError # "none" /\ f.result.ok)
         => f.memberError = "23505"

\* C14 as amended: when the membership insert of a join fails with an error
\* other than the uniqueness violation, that step creates no membership
\* record (a record of the pair is there afterwards only if it was there
\* before the insert) and the call fails: joinPrivateRoom returns the
\* store's error, ChatDatabaseService.joinRoom returns 'Invalid password'.
\* Only the uniqueness violation is answered with success.
C14_InsertError ==
  [][\A c \in Clients :
       LET f == local'[c] IN
       (Acted(c) /\ f.op \in JoinOps /\ f.pc = "done" /\ f.memberError # "none")
         => /\ f.memberError = "other"
                 => /\ room_members' = room_members
                    /\ f.op = "joinPrivateRoom" => f.result = StoreFailure
                    /\ f.op = "joinRoom" => f.result = InvalidPassword
            /\ f.result.ok => f.memberError = "23505"]_vars

\* the insert of a first join with the right password failed: the call
\* returned the store's error and the pair has no record
C14_Witness ==
  \E c \in Clients :
    /\ At(c, "joinPrivateRoom", "done")
    /\ local[c].memberError = "other"
    /\ CreatedWith(local[c].roomId, local[c].password)
    /\ local[c].result = StoreFailure
    /\ MembersOf(local[c].roomId, local[c].user) = 0

\* C15: an isRoomMember call made while no account is authenticated returns
\* false, also after the account the service was initialised with has signed
\* out; it returns true only if the store holds a membership record of the
\* room and the authenticated account; it changes nothing in the store.
C15_IsMemberUnauthenticated ==
  [][\A c \in Clients :
       LET f == local'[c] IN
       (Acted(c) /\ f.op = "isRoomMember" /\ f.pc # "idle")
         => /\ UNCHANGED store
            /\ (f.pc = "done" /\ authUser[c] = NULL) => f.result = Failure("")
            /\ (f.pc = "done" /\ f.result = Success)
                 => (authUser[c] # NULL /\ MembersOf(f.roomId, authUser[c]) >= 1)]_vars

\* C16: a sendMessage call on an existing public room made while nobody is
\* signed in (the service has no current user) succeeds when the store
\* answers: it returns the message it stored, whose user_id is null.
C16_AnonymousSend ==
  \A c \in Clients :
    LET f == local[c] IN
    (/\ f.op = "sendMessage" /\ f.pc = "done" /\ ~f.fault
     /\ authUser[c] = NULL /\ f.user = NULL /\ f.room.type = "public")
      => /\ f.result = Success
         /\ \E m \in BagToSet(messages) : m.room_id = f.roomId /\ m.user_id = NULL

\* C17: every room of the store, the seeded ones included, has a password
\* digest if and only if it is private.
C17_DigestIffPrivate ==
  \A r \in chat_rooms : (r.password_hash # NULL) <=> (r.type = "private")

\* the message rows of which a step takes copies away
Leaving == {m \in BagToSet(messages) : CopiesIn(m, messages') < CopiesIn(m, messages)}
\* a step that only adds rows or only takes rows away: no row is replaced
\* by a changed one
NoRowEdited == (messages \sqsubseteq messages') \/ (messages' \sqsubseteq messages)

\* the step is a delete of a clear that the owner of the room of m started
OwnerClearOf(m) ==
  \E c \in Clients :
    /\ Acted(c) /\ local'[c].op = "clearPrivateRoomHistory"
    /\ local'[c].roomId = m.room_id
    /\ local'[c].user # NULL
    /\ RoomOf(m.room_id).owner_id = local'[c].user

\* the step is a delete of one of the service's own-history operations, by
\* the session whose this.userId wrote m
OwnHistoryClearOf(m) ==
  \E c \in Clients :
    /\ Acted(c)
    /\ local'[c].op \in {"clearChatHistory", "clearAllChatHistory", "autoClearHistoryIfNeeded"}
    /\ m.user_id = local'[c].user
    /\ local'[c].op = "clearChatHistory" => m.room_id = local'[c].roomId

\* C18 as stated: a message leaves the store only in a clear that the owner
\* of its room started, and no step changes a stored message.
C18_Original ==
  [][NoRowEdited /\ \A m \in Leaving : OwnerClearOf(m)]_vars

\* C18 as amended: a message leaves the store only (a) in the delete of a
\* clearPrivateRoomHistory that the owner of its room started, or (b) in the
\* delete of clearChatHistory (for its room), clearAllChatHistory or
\* autoClearHistoryIfNeeded of a service whose this.userId is the message's
\* user_id, owner of the room or not; cleanupOldPublicMessages, which
\* filters on the room_id 'public', takes no message away; no step changes
\* a stored message.
C18_MessageLifecycle ==
  [][NoRowEdited /\ \A m \in Leaving : OwnerClearOf(m) \/ OwnHistoryClearOf(m)]_vars

\* an account has taken its own message out of a room it does not own with
\* clearChatHistory, while a message of another account stays in that room
C18_Witness ==
  \E c \in Clients :
    /\ At(c, "clearChatHistory", "done")
    /\ local[c].removed > 0
    /\ HasRoom(local[c].roomId)
    /\ RoomOf(local[c].roomId).owner_id # local[c].user
    /\ \E m \in BagToSet(messages) :
         m.room_id = local[c].roomId /\ m.user_id # local[c].user

FourDigits(password) == Len(password) = 4 /\ OnlyDigits(password)

\* C20: every password a dialog hands to onJoin, onCreate (auto-generated
\* or custom) or onChangePassword is a string of exactly 4 decimal digits.
C20_FourDigitPasswords ==
  /\ ui.handed.callback # "none" => FourDigits(ui.handed.password)
  /\ ui.create.isOpen => FourDigits(ui.create.generatedPassword)

\* the create dialog has handed a custom password to onCreate that was
\* typed with other characters in between
C20_Witness ==
  /\ ui.handed = Call("onCreate", <<"9", "9", "9", "9">>)
  /\ ui.create.passwordType = "custom"
  /\ ui.create.isLoading

\* a finished join of an authenticated account, known to the service on the
\* service path, with the password the room was created with, in which no
\* store call failed
SamePasswordJoin(c) ==
  LET f == local[c] IN
  /\ f.op \in JoinOps /\ f.pc = "done"
  /\ f.user # NULL /\ ~f.fault
  /\ f.op = "joinRoom" => svcUser[c] # NULL
  /\ CreatedWith(f.roomId, f.password)

\* C21 as stated: a join with the password the room was created with
\* succeeds for every string, the empty one included, on both join paths.
C21_Original ==
  \A c \in Clients : SamePasswordJoin(c) => local[c].result = Success

PasswordRequired == Failure("Password required for private rooms")

\* C21 as amended: createPrivateRoom checks no format: for every string,
\* the empty one included, an authenticated creation whose store calls
\* answer returns the id of a room that stores the digest of that string.
\* joinPrivateRoom with the password the room was created with succeeds for
\* every string. ChatDatabaseService.joinRoom does so for every non-empty
\* string; with the empty string it returns 'Password required for private
\* rooms', also on a room that was created with the empty string.
C21_NoFormatCheck ==
  \A c \in Clients :
    LET f == local[c] IN
    /\ (At(c, "createPrivateRoom", "done") /\ f.user # NULL /\ ~f.fault)
         => /\ f.result = Value(f.dataId)
            /\ CreatedWith(f.dataId, f.password)
    /\ (SamePasswordJoin(c) /\ f.op = "joinPrivateRoom") => f.result = Success
    /\ (SamePasswordJoin(c) /\ f.op = "joinRoom" /\ f.password # "") => f.result = Success
    /\ (SamePasswordJoin(c) /\ f.op = "joinRoom" /\ f.password = "") => f.result = PasswordRequired

\* an account that is not the owner has joined a room that was created with
\* the empty string through joinPrivateRoom with the empty string
C21_Witness ==
  \E c \in Clients :
    /\ SamePasswordJoin(c)
    /\ At(c, "joinPrivateRoom", "done")
    /\ local[c].password = ""
    /\ RoomOf(local[c].roomId).owner_id # local[c].user
    /\ local[c].result = Success
    /\ MembersOf(local[c].roomId, local[c].user) = 1

\* C22: whatever the awaited store and identity-provider calls do, a throw
\* or a rejection included, createPrivateRoom, joinPrivateRoom, joinRoom,
\* clearPrivateRoomHistory, clearPrivateRoom and sendMessage end by
\* returning a result value: no exception leaves any of them.
C22_NoEscape ==
  \A c \in Clients :
    local[c].op \in BareOps \cup CatchingOps => local[c].pc # "thrown"

\* an SDP exchange has begun and has neither led to an open channel nor been
\* reset: the host's room holds the connection it made its offer with, or a
\* connection that answered an offer waits for its channel to open while
\* its answer is still shown
ExchangeInProgress ==
  \/ /\ page.p2pRoom.isHost /\ page.p2pRoom.peerConnection # 0
     /\ ~page.p2pRoom.isConnected
  \/ /\ page.sdpAnswer = "sdp" /\ ~page.p2pRoom.isConnected
     /\ \E n \in 1 .. Len(page.peers) :
          page.peers[n].role = "guest" /\ page.peers[n].channel \in {"none", "opening"}

\* C23: while an SDP exchange is in progress the connection status is
\* 'connecting'; the status is 'disconnected' only when no exchange is in
\* progress and there is no connection.
C23_Connecting ==
  /\ ExchangeInProgress => page.connectionStatus = "connecting"
  /\ page.connectionStatus = "disconnected" =>
       (~ExchangeInProgress /\ ~page.p2pRoom.isConnected)

\* the room of page p can carry a private message: it holds a data channel
\* whose readyState is 'open', and p2pRoom.isConnected is true
ReadyForMessages(p) ==
  /\ p.p2pRoom.dataChannel # 0
  /\ ReadyState(p.peers[p.p2pRoom.dataChannel]) = "open"
  /\ p.p2pRoom.isConnected

\* C24: whenever the connection status is 'connected' the room holds an
\* open data channel and p2pRoom.isConnected is true, so sendPrivateMessage
\* passes its guard; and the step in which a data channel closes sets the
\* status to 'disconnected' and resets the P2P room and both SDP texts.
C24_ConnectedIsReady ==
  [][/\ page'.connectionStatus = "connected" => ReadyForMessages(page')
     /\ \A n \in 1 .. Len(page.peers) :
          (page.peers[n].channel # "closed" /\ page'.peers[n].channel = "closed")
            => /\ page'.connectionStatus = "disconnected"
               /\ page'.p2pRoom = NoP2P
               /\ page'.sdpOffer = "" /\ page'.sdpAnswer = ""]_vars

\* the files of a list that are at most 10 MB, in the order of the list
WithinLimit(files) == SelectSeq(files, LAMBDA file : file.size <= 10485760)

\* C25: the attachments of a message are those of exactly the files the
\* send was called with whose size is at most 10 * 1024 * 1024 bytes, in
\* the order of the files; no attachment of a message built for the public
\* or the private room is above the limit.
C25_SizeLimit ==
  /\ Len(page.sent.attachments) = Len(WithinLimit(page.sent.files))
  /\ \A i \in 1 .. Len(page.sent.attachments) :
       /\ page.sent.attachments[i].name = WithinLimit(page.sent.files)[i].name
       /\ page.sent.attachments[i].size = WithinLimit(page.sent.files)[i].size
       /\ page.sent.attachments[i].size <= 10485760

\* a private message was sent from a composer that held a file a byte above
\* the limit before a file of exactly the limit: only the latter is attached
C25_Witness ==
  /\ page.sent.room = "private"
  /\ Len(page.sent.files) = 2
  /\ page.sent.files[1].size = 10485761
  /\ page.sent.files[2].size = 10485760
  /\ Len(page.sent.attachments) = 1
  /\ page.sent.attachments[1].name = page.sent.files[2].name

\* the operation of session c that is under way inserts the record m: the
\* creation of the room by the account that owns it, or a join of the
\* account on the room with a password whose digest is the stored one
Admits(c, m) ==
  LET f == local[c] IN
  /\ f.user = m.user_id
  /\ \/ /\ f.op = "createPrivateRoom" /\ f.dataId = m.room_id
        /\ RoomOf(m.room_id).owner_id = m.user_id
     \/ /\ f.op \in JoinOps /\ f.roomId = m.room_id
        /\ CreatedWith(m.room_id, f.password)

\* C26: every membership record is of a private room and is inserted either
\* by the room's creation for its creator or by a join call of the account
\* on that room whose password has the digest the room stores; no step
\* removes a record or changes a room, so every record in the store has
\* that origin.
C26_MembershipProvenance ==
  [][/\ \A r \in chat_rooms : r \in chat_rooms'
     /\ \A m \in BagToSet(room_members) : CopiesIn(m, room_members') >= CopiesIn(m, room_members)
     /\ \A m \in BagToSet(room_members') :
          CopiesIn(m, room_members') > CopiesIn(m, room_members)
            => /\ IsPrivate(m.room_id)
               /\ \E c \in Clients : Acted(c) /\ Admits(c, m)]_vars

\* one room holds the record of its creator and the record of an account
\* that joined it
C26_Witness ==
  \E r \in chat_rooms, a \in Accounts :
    /\ r.type = "private" /\ r.owner_id # NULL /\ r.owner_id # a
    /\ MembersOf(r.id, r.owner_id) = 1
    /\ MembersOf(r.id, a) = 1

\* C27: every message that a step stores under a private room carries the
\* id of an account that holds a membership record of that room when the
\* insert is made, whichever operation writes it (sendMessage or
\* saveMessage).
C27_MemberWrites ==
  [][\A m \in BagToSet(messages') :
       (CopiesIn(m, messages') > CopiesIn(m, messages) /\ IsPrivate(m.room_id))
         => MembersOf(m.room_id, m.user_id) = 1]_vars

\* C28: every channel that is subscribed and not yet removed is the one
\* that realtimeSubscriptions stores for its room (so there is at most one
\* per room and cleanup() removes them all), whatever the order of the
\* setupPublicRoomRealtime calls and of the invocations of the functions
\* they returned.
C28_Recorded ==
  \A n \in 1 .. Len(realtimeSubscriptions.channels) :
    realtimeSubscriptions.channels[n].active
      => realtimeSubscriptions.map[realtimeSubscriptions.channels[n].room] = n

\* C29: in PrivateRoomPasswordDialog isLoading is true exactly while
\* handleSubmit awaits onJoin. It turns true only in a submit whose password
\* is 4 digits and which hands that password to onJoin; the step in which
\* onJoin settles (success, failure or rejection) turns it false; while it
\* is true no step (handleClose among them) changes the form or closes the
\* dialog; when onJoin failed or rejected the dialog stays open with its
\* password and an error; the dialog is closed by a submit only after a
\* success, with the password cleared.
C29_LoadingWhileJoining ==
  [][LET d == ui.join
         e == ui'.join
     IN /\ e.isLoading <=> e.awaiting
        /\ (~d.isLoading /\ e.isLoading)
             => (FourDigits(d.password) /\ ui'.handed = Call("onJoin", d.password))
        /\ (d.awaiting /\ ~e.awaiting) => ~e.isLoading
        /\ (d.isLoading /\ e.isLoading) => e = d
        /\ (d.awaiting /\ ~e.awaiting /\ e.error # NULL)
             => (e.isOpen /\ e.password = d.password)
        /\ (d.isLoading /\ d.isOpen /\ ~e.isOpen)
             => (e.error = NULL /\ e.password = <<>>)]_vars

\* onJoin has rejected: the dialog is open, not loading, shows the error
\* and still holds the 4 digits it handed over
C29_Witness ==
  /\ ui.join.isOpen /\ ~ui.join.isLoading /\ ~ui.join.awaiting
  /\ ui.join.error = "An unexpected error occurred"
  /\ ui.handed = Call("onJoin", ui.join.password)
  /\ FourDigits(ui.join.password)

====
